---- MODULE Spec2Model ----
(***************************************************************************)
(* Model of the MDB master driver: the link layer (Mdb, src/src/lib.rs)    *)
(* and the coin acceptor protocol (src/src/coin_acceptor.rs).              *)
(*                                                                         *)
(* The 9-bit UART is a byte transport on which every logical byte is two   *)
(* physical bytes: the mode byte (0x00 or 0x01, the 9th bit) and then the  *)
(* data byte.                                                              *)
(***************************************************************************)
EXTENDS Integers, Sequences, FiniteSets, TLC

VARIABLES
    lpc,                  \* position of the link-layer caller: "idle", "recv", "done"
    op,                   \* the link operation in progress or last completed
    msg,                  \* payload handed to send_data / send_data_and_confirm_ack
    tx,                   \* uart.write calls of the current operation, each <<mode, data>>
    reply,                \* the peripheral's reply as logical <<mode, data>> bytes
    rx,                   \* physical bytes the UART has not handed out yet
    buf,                  \* the caller's buffer
    bytes_out,            \* receive_response local
    offset,               \* receive_response local
    calculated_checksum,  \* receive_response local
    end_of_message,       \* receive_response local
    result,               \* value returned by receive_response (or a panic)
    ack_ret,              \* value returned by send_data_and_confirm_ack
    counter,              \* timer.get_counter_low(), two 16-bit limbs <<hi, lo>>
    start_counter_val,    \* receive_response local
    elapsed,              \* microseconds since receive_response was entered
    check_elapsed,        \* value of elapsed at the last timeout check that let the loop go on
    overflow_checks       \* build profile: TRUE when integer overflow panics

linkvars == <<lpc, op, msg, tx, reply, rx, buf, bytes_out, offset,
              calculated_checksum, end_of_message, result, ack_ret,
              counter, start_counter_val, elapsed, check_elapsed, overflow_checks>>

----------------------------------------------------------------------------
(* Bounds of the model *)

MaxPayload == 2          \* longest reply payload, in logical bytes
MaxMsg == 3              \* longest command payload
MaxBuf == 4              \* longest caller buffer
MaxAckMsg == 1           \* longest command payload of send_data_and_confirm_ack
MaxElapsed == 100000     \* time is not advanced past this many microseconds
MaxPollLen == 2          \* POLL replies of every combination of PollBytes up to this length
MaxDiagLen == 2          \* DIAGNOSTICS replies of every combination of DiagBytes up to this length
MaxBusLog == 10          \* payout stops retrying after this many bus calls
MaxUptime == 200000      \* init is not called when the timer would read more than this after its wait

ByteVals == {0, 1, 170, 255}     \* byte values replies and commands are built from

----------------------------------------------------------------------------
(* Program constants *)

MDB_TIMEOUT_MS == 50
SCRATCH_LEN == 72

StatusNames == {"ACK", "NAK", "RET", "NoReply", "ChecksumErr", "BufOverflow", "Invalid"}

\* enum MDBStatus: discriminant of each variant (status as u8)
StatusByte(status) ==
    CASE status = "ACK" -> 0
      [] status = "NAK" -> 255
      [] status = "RET" -> 170
      [] status = "NoReply" -> 1
      [] status = "ChecksumErr" -> 2
      [] status = "BufOverflow" -> 3
      [] status = "Invalid" -> 4

\* MDBStatus::n(byte), the derived conversion from u8: "None" when no variant matches
MDBStatus_n(b) ==
    IF \E s \in StatusNames : StatusByte(s) = b
    THEN CHOOSE s \in StatusNames : StatusByte(s) = b
    ELSE "None"

\* values of MDBResponse<usize, MDBStatus>, plus the two non-values
Data(n) == [kind |-> "Data", n |-> n, status |-> "None"]
StatusMsg(s) == [kind |-> "StatusMsg", n |-> 0, status |-> s]
Panic == [kind |-> "Panic", n |-> 0, status |-> "None"]
NoResult == [kind |-> "None", n |-> 0, status |-> "None"]

\* u8::wrapping_add
WrapAddSat(a, b) == IF a + b > 255 THEN 255 ELSE a + b
WrapAdd(a, b) == (a + b) % 256

----------------------------------------------------------------------------
(* 32-bit timer arithmetic on two 16-bit limbs <<hi, lo>> *)

Limb == 65536

U32(hi, lo) == <<hi, lo>>

\* a + n for n >= 0, wrapped to 32 bits
Add32(a, n) ==
    LET lo == a[2] + n
        hi == a[1] + (lo \div Limb)
    IN <<hi % Limb, lo % Limb>>

\* TRUE when a + n does not fit 32 bits
Overflows32(a, n) == a[1] + ((a[2] + n) \div Limb) >= Limb

Ge32(a, b) == a[1] > b[1] \/ (a[1] = b[1] /\ a[2] >= b[2])

\* the counter as a number of microseconds
U32Value(a) == a[1] * Limb + a[2]

TimeoutTicks == 1000 * MDB_TIMEOUT_MS

----------------------------------------------------------------------------
(* send_data and send_status_message *)

\* prefix_byte of send_data: 0x01 for the first byte, 0x00 for the rest
PrefixAllHigh(is_first_byte) == 1
PrefixByte(is_first_byte) == IF is_first_byte THEN 1 ELSE 0

\* the loop of send_data: uart writes and checksum after the first k bytes of m
RECURSIVE SendLoop(_, _)
SendLoop(m, k) ==
    IF k = 0 THEN [writes |-> <<>>, checksum |-> 0]
    ELSE LET prev == SendLoop(m, k - 1)
         IN [writes |-> Append(prev.writes, <<PrefixByte(k = 1), m[k]>>),
             checksum |-> WrapAdd(prev.checksum, m[k])]

\* all uart writes of send_data(m)
SendDataTx(m) ==
    LET l == SendLoop(m, Len(m))
    IN Append(l.writes, <<0, l.checksum>>)

\* all uart writes of send_status_message(status)
SendStatusAny(status) == <<<<0, StatusByte(status)>>>>
SendStatusTx(status) ==
    IF status \in {"ACK", "NAK", "RET"}
    THEN <<<<0, StatusByte(status)>>>>
    ELSE <<>>

----------------------------------------------------------------------------
(* receive_response *)

\* the body of `for i in scratch_buf[offset..offset + count].iter()`,
\* from byte i of the chunk just read; st holds the locals
RECURSIVE ProcessBytes(_, _, _)
ProcessBytes(chunk, i, st) ==
    IF i > Len(chunk) \/ st.ret.kind # "None" THEN st
    ELSE
      LET b == chunk[i]
          eom == st.end_of_message \/ (st.top_byte /\ b = 1)
          s1 == [st EXCEPT !.end_of_message = eom, !.top_byte = ~st.top_byte]
      IN IF ~eom
         THEN IF Len(st.buf) = st.bytes_out
              THEN [s1 EXCEPT !.ret = StatusMsg("BufOverflow")]
              ELSE ProcessBytes(chunk, i + 1,
                     [s1 EXCEPT !.buf[st.bytes_out + 1] = b,
                                !.bytes_out = @ + 1,
                                !.cksum = WrapAdd(@, b),
                                !.offset = @ + Len(chunk)])
         ELSE IF st.bytes_out = 0
              THEN IF MDBStatus_n(b) \in {"ACK", "NAK"}
                   THEN [s1 EXCEPT !.ret = StatusMsg(MDBStatus_n(b))]
                   ELSE [s1 EXCEPT !.ret = StatusMsg("Invalid")]
              ELSE IF b = st.cksum
                   THEN [s1 EXCEPT !.ret = Data(st.bytes_out),
                                   !.tx = @ \o SendStatusTx("ACK")]
                   ELSE [s1 EXCEPT !.ret = StatusMsg("ChecksumErr")]

\* the Ok(count) arm of one loop iteration, chunk being the bytes just read
ReadOk(chunk) ==
    ProcessBytes(chunk, 1,
        [top_byte |-> TRUE, end_of_message |-> end_of_message,
         bytes_out |-> bytes_out, buf |-> buf, cksum |-> calculated_checksum,
         offset |-> offset, ret |-> NoResult, tx |-> tx])

\* the physical byte stream of a reply of logical <<mode, data>> bytes
RECURSIVE Wire(_)
Wire(r) == IF r = <<>> THEN <<>> ELSE <<r[1][1], r[1][2]>> \o Wire(Tail(r))

Min(a, b) == IF a < b THEN a ELSE b

\* send_data_and_confirm_ack taking every status but NAK for the confirmation
ConfirmAckNotNak(res) == res.kind = "StatusMsg" /\ res.status # "NAK"

\* return value of send_data_and_confirm_ack given what receive_response returned
ConfirmAck(res) == res.kind = "StatusMsg" /\ res.status = "ACK"

----------------------------------------------------------------------------
(* Inputs of the link layer *)

\* all byte sequences of at most maxn bytes
Payloads(maxn) == UNION {[1..n -> ByteVals] : n \in 0..maxn}

RECURSIVE SumBytes(_)
SumBytes(p) == IF p = <<>> THEN 0 ELSE p[1] + SumBytes(Tail(p))

\* the checksum the protocol defines for a payload
Checksum(p) == SumBytes(p) % 256

\* a reply frame: the payload with mode bit 0, then a last byte with mode bit 1
Frame(p, c) == [i \in 1..(Len(p) + 1) |-> IF i <= Len(p) THEN <<0, p[i]>> ELSE <<1, c>>]

\* replies of the peripheral: silence, or a frame with any last byte
Replies ==
    {<<>>} \cup UNION {{Frame(p, c) : c \in ByteVals \cup {Checksum(p)}} : p \in Payloads(MaxPayload)}

Msgs == Payloads(MaxMsg) \ {<<>>}

ZeroBuf(n) == [i \in 1..n |-> 0]

----------------------------------------------------------------------------
(* Operations of the link layer *)

\* Mdb::send_data(m)
send_data(m) ==
    /\ lpc = "idle"
    /\ lpc' = "done"
    /\ op' = "send_data"
    /\ msg' = m
    /\ tx' = SendDataTx(m)
    /\ UNCHANGED <<reply, rx, buf, bytes_out, offset, calculated_checksum,
                   end_of_message, result, ack_ret, counter, start_counter_val,
                   elapsed, check_elapsed, overflow_checks>>

\* Mdb::send_status_message(status)
send_status_message(status) ==
    /\ lpc = "idle"
    /\ lpc' = "done"
    /\ op' = "send_status_message"
    /\ msg' = <<StatusByte(status)>>
    /\ tx' = SendStatusTx(status)
    /\ UNCHANGED <<reply, rx, buf, bytes_out, offset, calculated_checksum,
                   end_of_message, result, ack_ret, counter, start_counter_val,
                   elapsed, check_elapsed, overflow_checks>>

\* entry of receive_response(buf) up to the loop, the peripheral answering r
ReceiveEnter(name, r, blen, sent) ==
    /\ lpc = "idle"
    /\ lpc' = "recv"
    /\ op' = name
    /\ tx' = sent
    /\ reply' = r
    /\ rx' = Wire(r)
    /\ buf' = ZeroBuf(blen)
    /\ bytes_out' = 0
    /\ offset' = 0
    /\ calculated_checksum' = 0
    /\ end_of_message' = FALSE
    /\ start_counter_val' = counter
    /\ elapsed' = 0
    /\ check_elapsed' = 0
    /\ UNCHANGED <<result, ack_ret, counter, overflow_checks>>

\* a call of Mdb::receive_response with a buffer of blen bytes
receive_response(r, blen) ==
    /\ ReceiveEnter("receive_response", r, blen, <<>>)
    /\ msg' = msg

\* Mdb::send_data_and_confirm_ack(m): send_data, then receive_response(&mut [])
send_data_and_confirm_ack(m, r) ==
    /\ ReceiveEnter("send_data_and_confirm_ack", r, 0, SendDataTx(m))
    /\ msg' = m

\* receive_response returns res
ReceiveReturn(res) ==
    /\ lpc' = "done"
    /\ result' = res
    /\ ack_ret' = IF op = "send_data_and_confirm_ack" /\ res.kind # "Panic"
                  THEN ConfirmAck(res) ELSE ack_ret

\* one iteration of the loop of receive_response: the timeout check, one
\* uart.read and the processing of what it returned
ReceiveLoop ==
    /\ lpc = "recv"
    /\ UNCHANGED <<op, msg, reply, counter, start_counter_val, elapsed, overflow_checks>>
    /\ IF overflow_checks /\ Overflows32(start_counter_val, TimeoutTicks)
       THEN \* start_counter_val + 50000 panics in a build with overflow checks
            /\ ReceiveReturn(Panic)
            /\ UNCHANGED <<tx, rx, buf, bytes_out, offset, calculated_checksum,
                           end_of_message, check_elapsed>>
       ELSE IF Ge32(counter, Add32(start_counter_val, TimeoutTicks))
       THEN /\ ReceiveReturn(StatusMsg("NoReply"))
            /\ UNCHANGED <<tx, rx, buf, bytes_out, offset, calculated_checksum,
                           end_of_message, check_elapsed>>
       ELSE IF offset > SCRATCH_LEN
       THEN \* scratch_buf[offset..72] is out of range
            /\ ReceiveReturn(Panic)
            /\ UNCHANGED <<tx, rx, buf, bytes_out, offset, calculated_checksum,
                           end_of_message, check_elapsed>>
       ELSE \* Err(_) and Ok(0) are count = 0
            \E count \in 0..Min(Len(rx), SCRATCH_LEN - offset) :
              \E st \in {ReadOk(SubSeq(rx, 1, count))} :
                 /\ rx' = SubSeq(rx, count + 1, Len(rx))
                 /\ buf' = st.buf
                 /\ bytes_out' = st.bytes_out
                 /\ offset' = st.offset
                 /\ calculated_checksum' = st.cksum
                 /\ end_of_message' = st.end_of_message
                 /\ tx' = st.tx
                 /\ check_elapsed' = elapsed
                 /\ IF st.ret.kind # "None"
                    THEN ReceiveReturn(st.ret)
                    ELSE UNCHANGED <<lpc, result, ack_ret>>

\* the timer advances by dt microseconds while receive_response polls
Tick(dt, cap) ==
    /\ lpc = "recv"
    /\ elapsed + dt <= cap
    /\ counter' = Add32(counter, dt)
    /\ elapsed' = elapsed + dt
    /\ UNCHANGED <<lpc, op, msg, tx, reply, rx, buf, bytes_out, offset,
                   calculated_checksum, end_of_message, result, ack_ret,
                   start_counter_val, check_elapsed, overflow_checks>>

LinkInit(starts, builds) ==
    /\ lpc = "idle"
    /\ op = "none"
    /\ msg = <<>>
    /\ tx = <<>>
    /\ reply = <<>>
    /\ rx = <<>>
    /\ buf = <<>>
    /\ bytes_out = 0
    /\ offset = 0
    /\ calculated_checksum = 0
    /\ end_of_message = FALSE
    /\ result = NoResult
    /\ ack_ret = FALSE
    /\ counter \in starts
    /\ start_counter_val = <<0, 0>>
    /\ elapsed = 0
    /\ check_elapsed = 0
    /\ overflow_checks \in builds

----------------------------------------------------------------------------
(* The coin acceptor (src/src/coin_acceptor.rs).  Each operation runs from  *)
(* one bus call to the next; what receive_response returns and writes to    *)
(* the buffer is the input of the step that follows the call.               *)

VARIABLES
    cpc,            \* position of the coin acceptor caller: "idle" or the bus call waited on
    cop,            \* the coin acceptor operation in progress or last completed
    coin,           \* the CoinAcceptor object (present = FALSE before init returned one)
    bus_log,        \* bus calls of the current operation, in order
    cbuf,           \* the buffer of the operation (init: 72 bytes, kept across its receives)
    credit,         \* payout: argument
    amount_paid,    \* payout_level2 / payout_level3 local
    slot,           \* payout_level2: loop index i
    num_to_pay,     \* payout_level2 local
    cret,           \* value returned by the operation
    poll_results,   \* poll: the array returned
    statuses,       \* l3_diagnostic_status: the array returned
    rsp             \* what the last receive_response of the operation handed back

coinvars == <<cpc, cop, coin, bus_log, cbuf, credit, amount_paid, slot,
              num_to_pay, cret, poll_results, statuses, rsp>>

\* command bytes
RESET_CMD == 8
SETUP_CMD == 9
TUBE_STATUS_CMD == 10
POLL_CMD == 11
COIN_TYPE_CMD == 12
DISPENSE_CMD == 13
L3_CMD_PREFIX == 15
L3_IDENT_CMD == 0
L3_FEATURE_ENABLE_CMD == 1
L3_PAYOUT_CMD == 2
L3_PAYOUT_STATUS_CMD == 3
L3_PAYOUT_VALUE_POLL_CMD == 4
L3_DIAG_CMD == 5

\* enum L3_OPTIONAL_FEATURE
AltPayout == 1
ExtDiag == 2
ControlledFillAndPayout == 4
Ftl == 8

NumCoinTypes == 16

\* b[i] of a Rust slice held as a sequence
At(b, i) == b[i + 1]

RECURSIVE BitAnd(_, _)
BitAnd(a, b) ==
    IF a = 0 \/ b = 0 THEN 0
    ELSE (IF a % 2 = 1 /\ b % 2 = 1 THEN 1 ELSE 0) + 2 * BitAnd(a \div 2, b \div 2)

RECURSIVE BitOr(_, _)
BitOr(a, b) ==
    IF a = 0 THEN b
    ELSE IF b = 0 THEN a
    ELSE (IF a % 2 = 1 \/ b % 2 = 1 THEN 1 ELSE 0) + 2 * BitOr(a \div 2, b \div 2)

RECURSIVE Pow2(_)
Pow2(n) == IF n = 0 THEN 1 ELSE 2 * Pow2(n - 1)

\* x << n on a value of `bits` bits
Shl(x, n, bits) == (x * Pow2(n)) % Pow2(bits)

\* Option<CoinType>
NoCoinType ==
    [present |-> FALSE, unscaled_value |-> 0, routeable_to_tube |-> FALSE,
     tube_full |-> FALSE, num_coins |-> 0]

\* Option<CoinAcceptorL3Features>
NoL3Features ==
    [present |-> FALSE, manufacturer_code |-> <<>>, serial_number |-> <<>>,
     model |-> <<>>, software_ver |-> <<>>,
     alt_payout_cmd_supported |-> FALSE, ext_diag_cmd_supported |-> FALSE,
     controlled_fill_payout_cmd_supported |-> FALSE, ftl_cmd_supported |-> FALSE]

\* Option<CoinAcceptor>::None
NoCoinAcceptor ==
    [present |-> FALSE, feature_level |-> 2, country_code |-> <<0, 0>>,
     scaling_factor |-> 0, decimal_places |-> 0,
     coin_types |-> [i \in 0..(NumCoinTypes - 1) |-> NoCoinType],
     l3_features |-> NoL3Features]

\* values returned by the operations
RetNone == [kind |-> "none", b |-> FALSE, n |-> 0]
RetSome == [kind |-> "some", b |-> FALSE, n |-> 0]
RetBool(v) == [kind |-> "bool", b |-> v, n |-> 0]
RetU16(v) == [kind |-> "u16", b |-> FALSE, n |-> v]
RetArray == [kind |-> "array", b |-> FALSE, n |-> 0]
RetPanic == [kind |-> "panic", b |-> FALSE, n |-> 0]

\* bus calls: send_data(m), receive_response, and bus.timer.delay_ms(ms)
SendEv(m) == [ev |-> "send", data |-> m]
RecvEv == [ev |-> "recv", data |-> <<>>]
DelayEv(ms) == [ev |-> "delay", data |-> <<ms>>]

\* the pause of init after RESET (line 191), in milliseconds
RESET_DELAY_MS == 100

\* what a call of receive_response hands back: its return value and the bytes
\* it wrote to the start of the caller's buffer; sent is the status the
\* peripheral answered with when its reply was a bare status byte
Rd(res, bytes) == [res |-> res, bytes |-> bytes, sent |-> "None"]

\* no receive_response has returned yet
NoRsp == Rd(NoResult, <<>>)

\* the buffer after receive_response wrote bytes to its start
Written(b, bytes) == [i \in 1..Len(b) |-> IF i <= Len(bytes) THEN bytes[i] ELSE b[i]]

\* the coin type loop of init (lines 217-233)
RECURSIVE ParseCoinTypes(_, _, _, _)
ParseCoinTypes(b, index, type_count, types) ==
    IF index = NumCoinTypes THEN types
    ELSE IF At(b, 7 + index) # 0
    THEN ParseCoinTypes(b, index + 1, type_count + 1,
            [types EXCEPT ![type_count] =
                [present |-> TRUE,
                 unscaled_value |-> At(b, 7 + index) * At(b, 3),
                 tube_full |-> FALSE,
                 num_coins |-> 0,
                 routeable_to_tube |->
                    BitAnd(BitOr(Shl(At(b, 5), 8, 16), At(b, 6)), Shl(1, index, 16)) # 0]])
    ELSE ParseCoinTypes(b, index + 1, type_count, types)

\* the CoinAcceptor built from a 23-byte SETUP reply (lines 202-235)
SetupCoinAcceptor(b) ==
    [present |-> TRUE,
     feature_level |-> IF At(b, 0) = 3 THEN 3 ELSE 2,
     country_code |-> SubSeq(b, 2, 3),
     scaling_factor |-> At(b, 3),
     decimal_places |-> At(b, 4),
     l3_features |-> NoL3Features,
     coin_types |-> ParseCoinTypes(b, 0, 0, [i \in 0..(NumCoinTypes - 1) |-> NoCoinType])]

\* the CoinAcceptorL3Features built from a 33-byte IDENT reply (lines 256-278)
IdentL3Features(b) ==
    [present |-> TRUE,
     manufacturer_code |-> SubSeq(b, 1, 3),
     serial_number |-> SubSeq(b, 4, 15),
     model |-> SubSeq(b, 16, 27),
     software_ver |-> SubSeq(b, 28, 29),
     alt_payout_cmd_supported |-> BitAnd(At(b, 32), AltPayout) = AltPayout,
     ext_diag_cmd_supported |-> BitAnd(At(b, 32), ExtDiag) = ExtDiag,
     controlled_fill_payout_cmd_supported |->
        BitAnd(At(b, 32), ControlledFillAndPayout) = ControlledFillAndPayout,
     ftl_cmd_supported |-> BitAnd(At(b, 32), Ftl) = Ftl]

\* tube_full_status of update_coin_counts (line 329)
TubeFullStatus(b) == BitOr(Shl(At(b, 0), 8, 16), Shl(At(b, 1), 8, 16))

\* update_coin_counts writing the tube count of a slot to its unscaled_value
UpdatedCoinTypesValue(types, b) ==
    [i \in 0..(NumCoinTypes - 1) |->
        IF types[i].present
        THEN [types[i] EXCEPT !.unscaled_value = At(b, i + 2),
                              !.tube_full = BitAnd(TubeFullStatus(b), Shl(1, i, 16)) # 0]
        ELSE types[i]]

\* the coin types after the loop of update_coin_counts (lines 331-337)
UpdatedCoinTypes(types, b) ==
    [i \in 0..(NumCoinTypes - 1) |->
        IF types[i].present
        THEN [types[i] EXCEPT !.num_coins = At(b, i + 2),
                              !.tube_full = BitAnd(TubeFullStatus(b), Shl(1, i, 16)) # 0]
        ELSE types[i]]

payvars == <<credit, amount_paid, slot, num_to_pay>>
outvars == <<poll_results, statuses>>

----------------------------------------------------------------------------
(* What the bus hands to the coin acceptor: each reply is what              *)
(* receive_response makes of the bytes the uart hands over.                 *)

\* s followed by zeros up to n bytes
Pad(s, n) == [i \in 1..n |-> IF i <= Len(s) THEN s[i] ELSE 0]

\* p followed by the byte that brings the 8-bit sum of the bytes to 1, the
\* value the comparison of line 110 is made with
Balanced(p) == Append(p, (257 - Checksum(p)) % 256)

\* the loop of receive_response from its k-th turn on (lines 53-127), st
\* holding the locals: the uart hands the bytes of stream over in reads of
\* counts[k], counts[k + 1], .. bytes and nothing after them, so that the
\* timer runs out when no read is left
RECURSIVE ReceiveReads(_, _, _, _)
ReceiveReads(stream, counts, k, st) ==
    IF st.ret.kind # "None" THEN st
    ELSE IF k > Len(counts) THEN [st EXCEPT !.ret = StatusMsg("NoReply")]
    ELSE IF st.offset > SCRATCH_LEN THEN [st EXCEPT !.ret = Panic]
    ELSE LET count == Min(Min(counts[k], Len(stream)), SCRATCH_LEN - st.offset)
         IN ReceiveReads(SubSeq(stream, count + 1, Len(stream)), counts, k + 1,
                ProcessBytes(SubSeq(stream, 1, count), 1, [st EXCEPT !.top_byte = TRUE]))

\* what receive_response(buf) with a buffer of blen bytes hands back for
\* these reads: its return value and the bytes it stored in buf
Handed(stream, counts, blen) ==
    LET st == ReceiveReads(stream, counts, 1,
                  [top_byte |-> TRUE, end_of_message |-> FALSE, bytes_out |-> 0,
                   buf |-> ZeroBuf(blen), cksum |-> 0, offset |-> 0,
                   ret |-> NoResult, tx |-> <<>>])
    IN Rd(st.ret, SubSeq(st.buf, 1, st.bytes_out))

\* what is handed back when the uart hands over the bytes of p and then the
\* end mark 0x01, in reads that put the end mark on the first byte of a
\* pair: one read for an even number of bytes, a read of one byte and a read
\* of the rest for an odd number
Ended(p, blen) ==
    Handed(Append(p, 1), IF Len(p) % 2 = 0 THEN <<Len(p) + 1>> ELSE <<1, Len(p)>>, blen)

\* the peripheral answers with the bare status byte of s (ACK or NAK, mode
\* bit 1); the uart hands over its mode byte and its data byte in one read
BareStatus(s, blen) ==
    [Handed(Wire(Frame(<<>>, StatusByte(s))), <<2>>, blen) EXCEPT !.sent = s]

\* the replies that are no data: an ACK and a NAK of the peripheral, silence,
\* the bytes of `partials` in reads of one byte and then silence or the end
\* mark, the bytes of `fulls` and one byte more in one read
StatusInputs(partials, fulls, blen) ==
    LET ByByte(stream) == [i \in 1..Len(stream) |-> 1]
    IN {BareStatus(s, blen) : s \in {"ACK", "NAK"}}
       \cup {Handed(<<>>, <<>>, blen)}
       \cup {Handed(p, ByByte(p), blen) : p \in partials}
       \cup {Handed(Append(p, 1), ByByte(Append(p, 1)), blen) : p \in partials}
       \cup {Handed(Append(f, 0), <<Len(f) + 1>>, blen) : f \in fulls}

\* receive_response does not return: the slice of line 59 or, in a build
\* with overflow checks, the sum of line 55 panics
PanicInput == Rd(Panic, <<>>)

\* receive_response(&mut []) of send_data_and_confirm_ack: nothing can be
\* stored, the first byte that is no end mark overflows the buffer
AckInputs == StatusInputs({}, {<<>>}, 0)

\* SETUP replies: feature level, country code (2), scaling, decimals,
\* routing mask (2), coin type credit (16)
SetupDatas ==
    {Pad(<<3, 0, 62, 1, 2, 0, 255, 5, 10, 25, 50, 100>>, 23),
     Pad(<<2, 0, 240, 5, 2, 0, 5, 1, 0, 2>>, 23),
     Pad(<<2, 0, 249, 0, 2, 0, 3, 1>>, 23),
     Pad(<<3, 0, 248, 0, 2, 0, 3, 1>>, 23),
     Pad(<<3, 0, 238, 5, 2, 0, 3, 1, 5>>, 23),
     Pad(<<2, 0, 195, 1, 2, 3, 255, 1, 2, 3, 4, 5, 6, 7, 8, 9, 10>>, 23)}

\* what init gets for SETUP: the replies of SetupDatas and the end mark in
\* reads of 2, 7 and 15 bytes, which puts the scaling factor and the first
\* credit on the second byte of a pair; replies of 22 and of 24 bytes; the
\* replies that are no data
SetupInputs ==
    {Handed(Append(d, 1), <<2, 7, 15>>, 72) : d \in SetupDatas}
    \cup {Ended(Balanced(Pad(<<2, 0, 0, 5, 2, 0, 3, 2, 0, 4>>, 21)), 72),
          Ended(Balanced(Pad(<<3, 0, 0, 5, 2, 0, 3, 2, 0, 4>>, 23)), 72)}
    \cup StatusInputs({<<3, 0>>}, {}, 72)

\* TUBE_STATUS replies: tube full bitmap (2), coin count per slot (16)
TubeDatas ==
    {Balanced(Pad(<<2, 1, 20, 1, 0, 0, 0, 0, 0, 0, 4, 5>>, 17)),
     Balanced(Pad(<<0, 1, 255, 255, 255>>, 17))}

\* a TUBE_STATUS reply with the count 1 on an odd byte
OddTubeData == Balanced(Pad(<<0, 0, 3, 2, 1>>, 17))

\* what update_coin_counts gets for TUBE_STATUS: the replies of TubeDatas;
\* OddTubeData with the end mark, and with one byte more, in reads of 1, 5
\* and 13 bytes, which puts its count 1 on the second byte of a pair; a
\* reply of 2 bytes; the replies that are no data
TubeInputs ==
    {Ended(d, 18) : d \in TubeDatas}
    \cup {Handed(Append(OddTubeData, 1), <<1, 5, 13>>, 18)}
    \cup {Ended(<<0, 1>>, 18)}
    \cup {Handed(Append(OddTubeData, 0), <<1, 5, 13>>, 18)}
    \cup StatusInputs({<<0, 0>>}, TubeDatas, 18)

\* IDENT replies: manufacturer (3), serial (12), model (12), version (2),
\* reserved (3), options (1)
IdentData(options) ==
    [i \in 1..33 |-> IF i = 33 THEN options ELSE IF i = 32 THEN 242 - options ELSE i + 1]

IdentInputs ==
    {Ended(IdentData(o), 72) : o \in {0, 3, 15}}
    \cup {Ended(SubSeq(IdentData(0), 1, 32), 72)}
    \cup StatusInputs({<<2>>}, {}, 72)

CoinMasks == {0, 5, 256, 65535}

----------------------------------------------------------------------------
(* init, update_coin_counts, l3_enable_features, enable_coins *)

\* the operation returns r to its caller
CoinReturn(r) ==
    /\ cpc' = "idle"
    /\ cret' = r

\* the locals and results of the previous operation are gone
NoLocals ==
    /\ credit' = 0
    /\ amount_paid' = 0
    /\ slot' = 0
    /\ num_to_pay' = 0
    /\ poll_results' = [i \in 0..15 |-> [kind |-> "None", value |-> 0, coin_type |-> 0,
                                         unscaled_value |-> 0, routing |-> "None",
                                         number |-> 0, coins_remaining |-> 0]]
    /\ statuses' = [i \in 0..7 |-> [kind |-> "None", sub |-> 0]]
    /\ rsp' = NoRsp

\* CoinAcceptor::init up to its wait (lines 186-191): RESET is sent and init
\* waits in bus.timer.delay_ms(100).  init has no self: it runs whether or
\* not an earlier call has returned a CoinAcceptor.  The application keeps
\* what the last init returned: the earlier CoinAcceptor until this call
\* returns, then Some(new) or None.
init ==
    /\ cpc = "idle"
    /\ cop' = "init"
    /\ bus_log' = <<SendEv(<<RESET_CMD>>), DelayEv(RESET_DELAY_MS)>>
    /\ cbuf' = <<>>
    /\ cpc' = "reset_delay"
    /\ cret' = RetNone
    /\ NoLocals
    /\ UNCHANGED coin

\* init from the end of its wait to its first receive_response (lines
\* 191-197): the timer has gone on by 100 ms, SETUP is sent
init_delay_done ==
    /\ cpc = "reset_delay"
    /\ counter' = Add32(counter, 1000 * RESET_DELAY_MS)
    /\ bus_log' = Append(bus_log, SendEv(<<SETUP_CMD>>))
    /\ cbuf' = ZeroBuf(72)
    /\ cpc' = "setup_recv"
    /\ UNCHANGED <<cop, coin, cret, payvars, outvars, rsp>>

\* a receive_response of the operation does not return: the operation ends
\* in the panic; an init that ends so has returned no CoinAcceptor
receive_response_panic ==
    /\ cpc \notin {"idle", "reset_delay"}
    /\ rsp' = PanicInput
    /\ bus_log' = Append(bus_log, RecvEv)
    /\ CoinReturn(RetPanic)
    /\ coin' = IF cop = "init" THEN NoCoinAcceptor ELSE coin
    /\ UNCHANGED <<cop, cbuf, payvars, outvars>>

\* init_setup_reply without the length test of line 198
init_setup_reply_any_length(in) ==
    /\ cpc = "setup_recv"
    /\ rsp' = in
    /\ cbuf' = Written(cbuf, in.bytes)
    /\ IF in.res.kind = "Data"
       THEN /\ coin' = SetupCoinAcceptor(cbuf')
            /\ bus_log' = bus_log \o <<RecvEv, SendEv(<<TUBE_STATUS_CMD>>)>>
            /\ cpc' = "tube_recv"
            /\ UNCHANGED cret
       ELSE /\ bus_log' = Append(bus_log, RecvEv)
            /\ CoinReturn(RetNone)
            /\ coin' = NoCoinAcceptor
    /\ UNCHANGED <<cop, payvars, outvars>>

\* init from the SETUP reply to the TUBE_STATUS command of
\* update_coin_counts (lines 197-239, 324)
init_setup_reply(in) ==
    /\ cpc = "setup_recv"
    /\ rsp' = in
    /\ cbuf' = Written(cbuf, in.bytes)
    /\ IF in.res.kind = "Data" /\ in.res.n = 23
       THEN /\ coin' = SetupCoinAcceptor(cbuf')
            /\ bus_log' = bus_log \o <<RecvEv, SendEv(<<TUBE_STATUS_CMD>>)>>
            /\ cpc' = "tube_recv"
            /\ UNCHANGED cret
       ELSE /\ bus_log' = Append(bus_log, RecvEv)
            /\ CoinReturn(RetNone)
            /\ coin' = NoCoinAcceptor
    /\ UNCHANGED <<cop, payvars, outvars>>

\* update_coin_counts from its receive_response to its end (lines 326-338),
\* and the caller from there: init goes on to IDENT or returns (lines
\* 243-246, 299), payout returns (line 384)
update_coin_counts_reply(in) ==
    /\ cpc = "tube_recv"
    /\ rsp' = in
    /\ LET types == UpdatedCoinTypes(coin.coin_types, Written(ZeroBuf(18), in.bytes))
       IN coin' = [coin EXCEPT !.coin_types = types]
    /\ IF cop = "init"
       THEN IF coin.feature_level = 3
            THEN /\ bus_log' = bus_log \o <<RecvEv, SendEv(<<L3_CMD_PREFIX, L3_IDENT_CMD>>)>>
                 /\ cpc' = "ident_recv"
                 /\ UNCHANGED cret
            ELSE /\ bus_log' = Append(bus_log, RecvEv)
                 /\ CoinReturn(RetSome)
       ELSE /\ bus_log' = Append(bus_log, RecvEv)
            /\ CoinReturn(RetU16(amount_paid))
    /\ UNCHANGED <<cop, cbuf, payvars, outvars>>

\* the mask init hands to l3_enable_features (line 288): feature_mask, which
\* is still 0x00 there; lines 282-287 set features_to_enable instead
InitFeatureMask(l3) == 0

\* the command of l3_enable_features (lines 312-319)
FeatureEnableMsg(feature_mask) ==
    <<L3_CMD_PREFIX, L3_FEATURE_ENABLE_CMD, 0, 0, 0, feature_mask>>

\* init from the IDENT reply to the FEATURE_ENABLE command or to its return
\* (lines 250-299)
init_ident_reply(in) ==
    /\ cpc = "ident_recv"
    /\ rsp' = in
    /\ cbuf' = Written(cbuf, in.bytes)
    /\ IF in.res.kind = "Data" /\ in.res.n = 33
       THEN /\ bus_log' = bus_log \o
                   <<RecvEv, SendEv(FeatureEnableMsg(InitFeatureMask(IdentL3Features(cbuf'))))>>
            /\ cpc' = "feature_recv"
            /\ UNCHANGED cret
       ELSE /\ bus_log' = Append(bus_log, RecvEv)
            /\ CoinReturn(RetSome)
    /\ UNCHANGED <<cop, coin, payvars, outvars>>

\* CoinAcceptor::l3_enable_features called by the application (lines 304-321)
l3_enable_features(feature_mask) ==
    /\ cpc = "idle"
    /\ coin.present
    /\ cop' = "l3_enable_features"
    /\ IF coin.feature_level # 3
       THEN /\ bus_log' = <<>>
            /\ CoinReturn(RetBool(FALSE))
       ELSE /\ bus_log' = <<SendEv(FeatureEnableMsg(feature_mask))>>
            /\ cpc' = "feature_recv"
            /\ cret' = RetNone
    /\ cbuf' = <<>>
    /\ NoLocals
    /\ UNCHANGED coin

\* send_data_and_confirm_ack of l3_enable_features returns; init stores the
\* L3 features and returns (lines 288-299)
l3_enable_features_reply(in) ==
    /\ cpc = "feature_recv"
    /\ rsp' = in
    /\ bus_log' = Append(bus_log, RecvEv)
    /\ IF cop = "init"
       THEN /\ coin' = [coin EXCEPT !.l3_features = IdentL3Features(cbuf)]
            /\ CoinReturn(RetSome)
       ELSE /\ CoinReturn(RetBool(ConfirmAck(in.res)))
            /\ UNCHANGED coin
    /\ UNCHANGED <<cop, cbuf, payvars, outvars>>

\* CoinAcceptor::enable_coins up to the receive of send_data_and_confirm_ack
\* (lines 340-352)
enable_coins(coin_mask) ==
    /\ cpc = "idle"
    /\ coin.present
    /\ cop' = "enable_coins"
    /\ bus_log' = <<SendEv(<<COIN_TYPE_CMD, BitAnd(coin_mask, 255),
                             BitAnd(coin_mask \div 256, 255), 255, 255>>)>>
    /\ cpc' = "coin_type_recv"
    /\ cret' = RetNone
    /\ cbuf' = <<>>
    /\ NoLocals
    /\ UNCHANGED coin

\* enable_coins returns what send_data_and_confirm_ack returned
enable_coins_reply(in) ==
    /\ cpc = "coin_type_recv"
    /\ rsp' = in
    /\ bus_log' = Append(bus_log, RecvEv)
    /\ CoinReturn(RetBool(ConfirmAck(in.res)))
    /\ UNCHANGED <<cop, coin, cbuf, payvars, outvars>>

----------------------------------------------------------------------------
(* poll *)

\* Option<PollEvent>
NoEvent ==
    [kind |-> "None", value |-> 0, coin_type |-> 0, unscaled_value |-> 0,
     routing |-> "None", number |-> 0, coins_remaining |-> 0]
SlugCount(v) == [NoEvent EXCEPT !.kind = "SlugCount", !.value = v]
Status(code) == [NoEvent EXCEPT !.kind = "Status", !.value = code]

\* ChangerStatus::n accepting every byte below 0x20
ChangerStatusAnyCode == 0..31

\* discriminants of enum ChangerStatus, which ChangerStatus::n accepts
ChangerStatusCodes == (1..9) \cup (16..19)

\* unscaled_value of a two-byte event whose first byte is b (lines 543-550, 574-581)
EventValue(types, b) ==
    IF types[BitAnd(b, 15)].present THEN types[BitAnd(b, 15)].unscaled_value ELSE 0

\* Routing with 0x20 taken for Reject as well
RoutingNoUnknown(b) ==
    CASE BitAnd(b, 48) = 0 -> "CashBox"
      [] BitAnd(b, 48) = 16 -> "Tube"
      [] OTHER -> "Reject"

\* routing of a coin event whose first byte is b (lines 552-561)
Routing(b) ==
    CASE BitAnd(b, 48) = 0 -> "CashBox"
      [] BitAnd(b, 48) = 16 -> "Tube"
      [] BitAnd(b, 48) = 48 -> "Reject"
      [] OTHER -> "Unknown"

CoinEvent(types, b, byte) ==
    [NoEvent EXCEPT !.kind = "Coin", !.coin_type = BitAnd(b, 15),
                    !.unscaled_value = EventValue(types, b),
                    !.routing = Routing(b), !.coins_remaining = byte]

ManualDispenseEvent(types, b, byte) ==
    [NoEvent EXCEPT !.kind = "ManualDispense", !.coin_type = BitAnd(b, 15),
                    !.unscaled_value = EventValue(types, b),
                    !.number = BitAnd(b \div 16, 7), !.coins_remaining = byte]

NoPollResults == [i \in 0..15 |-> NoEvent]

\* PollLoop testing bit 6 of a first byte before bit 7
RECURSIVE PollLoopCoinFirst(_, _, _, _)
PollLoopCoinFirst(types, b, k, st) ==
    IF k = Len(b) THEN st
    ELSE
      LET byte == At(b, k)
          put(e) == [st EXCEPT !.poll_results[st.result_count] = e,
                               !.result_count = @ + 1,
                               !.state = "NoState"]
      IN PollLoopCoinFirst(types, b, k + 1,
           CASE st.state = "NoState" ->
                  IF BitAnd(byte, 64) = 64
                  THEN [st EXCEPT !.state = "CoinDeposited", !.first = byte]
                  ELSE IF BitAnd(byte, 128) = 128
                  THEN [st EXCEPT !.state = "ManualDispense", !.first = byte]
                  ELSE IF BitAnd(byte, 32) = 32
                  THEN put(SlugCount(BitAnd(byte, 31)))
                  ELSE IF byte \in ChangerStatusCodes
                  THEN put(Status(byte))
                  ELSE st
             [] st.state = "CoinDeposited" -> put(CoinEvent(types, st.first, byte))
             [] st.state = "ManualDispense" -> put(ManualDispenseEvent(types, st.first, byte)))

\* the loop `for byte in &buf[0..count]` of poll from byte k on (lines 511-590);
\* st holds state (with its byte), poll_results and result_count
RECURSIVE PollLoop(_, _, _, _)
PollLoop(types, b, k, st) ==
    IF k = Len(b) THEN st
    ELSE
      LET byte == At(b, k)
          put(e) == [st EXCEPT !.poll_results[st.result_count] = e,
                               !.result_count = @ + 1,
                               !.state = "NoState"]
      IN PollLoop(types, b, k + 1,
           CASE st.state = "NoState" ->
                  IF BitAnd(byte, 128) = 128
                  THEN [st EXCEPT !.state = "ManualDispense", !.first = byte]
                  ELSE IF BitAnd(byte, 64) = 64
                  THEN [st EXCEPT !.state = "CoinDeposited", !.first = byte]
                  ELSE IF BitAnd(byte, 32) = 32
                  THEN put(SlugCount(BitAnd(byte, 31)))
                  ELSE IF byte \in ChangerStatusCodes
                  THEN put(Status(byte))
                  ELSE st
             [] st.state = "CoinDeposited" -> put(CoinEvent(types, st.first, byte))
             [] st.state = "ManualDispense" -> put(ManualDispenseEvent(types, st.first, byte)))

\* PollResults taking a zero byte after the end of the reply
PollResultsPadded(types, in) ==
    IF in.res.kind = "Data"
    THEN PollLoop(types, Append(SubSeq(in.bytes, 1, in.res.n), 0), 0,
                  [state |-> "NoState", first |-> 0,
                   poll_results |-> NoPollResults, result_count |-> 0]).poll_results
    ELSE NoPollResults

\* PollResults parsing whatever was written to the buffer, data frame or not
PollResultsAnyReply(types, in) ==
    PollLoop(types, in.bytes, 0,
             [state |-> "NoState", first |-> 0,
              poll_results |-> NoPollResults, result_count |-> 0]).poll_results

\* the array poll returns for what receive_response handed back (lines 496-594)
PollResults(types, in) ==
    IF in.res.kind = "Data"
    THEN PollLoop(types, SubSeq(in.bytes, 1, in.res.n), 0,
                  [state |-> "NoState", first |-> 0,
                   poll_results |-> NoPollResults, result_count |-> 0]).poll_results
    ELSE NoPollResults

----------------------------------------------------------------------------
(* l3_diagnostic_status *)

\* Option<L3ChangerStatus>; sub is the discriminant of the subtype attached
NoL3Status == [kind |-> "None", sub |-> 0]
L3Status(kind, sub) == [kind |-> kind, sub |-> sub]

\* discriminants of the subtype enums, which their ::n accept
GeneralErrorSubtypes == {0, 1, 2, 3}
DiscriminatorErrorSubtypes == {0, 16, 17, 48, 65, 80, 81, 82, 83, 84}
AcceptGateErrorSubtypes == {0, 48, 49, 64, 80}
SeparatorModuleErrorSubtypes == {0, 16}
CoinCassetteErrorSubtypes == {0, 2, 3, 4}

\* Subtype::n(byte), or NonSpecific (0x00) when there is no such variant
SubtypeOr0(codes, byte) == IF byte \in codes THEN byte ELSE 0

\* the match on firstbyte with no status for a subcode that names no subtype
DiagStatusKnownSubcode(firstbyte, byte) ==
    CASE firstbyte = 1 -> L3Status("PoweringUp", 0)
      [] firstbyte = 2 -> L3Status("PoweringDown", 0)
      [] firstbyte = 3 -> L3Status("Ok", 0)
      [] firstbyte = 4 -> L3Status("KeypadShifted", 0)
      [] firstbyte = 6 -> L3Status("InhibitedByVmc", 0)
      [] firstbyte = 16 /\ byte \in GeneralErrorSubtypes -> L3Status("GeneralError", byte)
      [] firstbyte = 17 /\ byte \in DiscriminatorErrorSubtypes ->
            L3Status("DiscriminatorError", byte)
      [] firstbyte = 18 /\ byte \in AcceptGateErrorSubtypes -> L3Status("AcceptGateError", byte)
      [] firstbyte = 19 /\ byte \in SeparatorModuleErrorSubtypes ->
            L3Status("SeparatorError", byte)
      [] firstbyte = 20 -> L3Status("DispenserError", 0)
      [] firstbyte = 21 /\ byte \in CoinCassetteErrorSubtypes ->
            L3Status("CoinCassetteError", byte)
      [] OTHER -> NoL3Status

\* the match on firstbyte (lines 624-703)
DiagStatus(firstbyte, byte) ==
    CASE firstbyte = 1 -> L3Status("PoweringUp", 0)
      [] firstbyte = 2 -> L3Status("PoweringDown", 0)
      [] firstbyte = 3 -> L3Status("Ok", 0)
      [] firstbyte = 4 -> L3Status("KeypadShifted", 0)
      [] firstbyte = 6 -> L3Status("InhibitedByVmc", 0)
      [] firstbyte = 16 -> L3Status("GeneralError", SubtypeOr0(GeneralErrorSubtypes, byte))
      [] firstbyte = 17 ->
            L3Status("DiscriminatorError", SubtypeOr0(DiscriminatorErrorSubtypes, byte))
      [] firstbyte = 18 -> L3Status("AcceptGateError", SubtypeOr0(AcceptGateErrorSubtypes, byte))
      [] firstbyte = 19 ->
            L3Status("SeparatorError", SubtypeOr0(SeparatorModuleErrorSubtypes, byte))
      [] firstbyte = 20 -> L3Status("DispenserError", 0)
      [] firstbyte = 21 ->
            L3Status("CoinCassetteError", SubtypeOr0(CoinCassetteErrorSubtypes, byte))
      [] OTHER -> NoL3Status

NoStatuses == [i \in 0..7 |-> NoL3Status]

\* the loop `for byte in &buf[0..len]` of l3_diagnostic_status from byte k on
\* (lines 617-709)
RECURSIVE DiagLoop(_, _, _)
DiagLoop(b, k, st) ==
    IF k = Len(b) THEN st
    ELSE
      LET byte == At(b, k)
      IN DiagLoop(b, k + 1,
           IF st.parser_state = "AwaitingFirstByte"
           THEN [st EXCEPT !.parser_state = "AwaitingSecondByte", !.firstbyte = byte]
           ELSE [st EXCEPT !.statuses[st.num_statuses] = DiagStatus(st.firstbyte, byte),
                           !.num_statuses = @ + 1,
                           !.parser_state = "AwaitingFirstByte"])

\* the array l3_diagnostic_status returns (lines 608-716)
DiagStatuses(in) ==
    IF in.res.kind = "Data"
    THEN DiagLoop(SubSeq(in.bytes, 1, in.res.n), 0,
                  [parser_state |-> "AwaitingFirstByte", firstbyte |-> 0,
                   statuses |-> NoStatuses, num_statuses |-> 0]).statuses
    ELSE NoStatuses

\* PollInputs and DiagInputs: short replies built from these bytes
PollBytes == {7, 12, 35, 82, 140}
DiagBytes == {0, 3, 16, 21, 48}

\* all sequences of 1..maxn bytes of the set s
BytesUpTo(s, maxn) == UNION {[1..n -> s] : n \in 1..maxn}

\* replies that fill the 16-byte buffer of poll: 16 slug counts, 16 statuses,
\* 8 two-byte events, 15 slug counts and the first byte of a manual dispense,
\* 16 bytes that are no status
FullPollReplies ==
    {[i \in 1..16 |-> IF i = 16 THEN 49 ELSE 48],
     [i \in 1..16 |-> IF i <= 13 THEN 19 ELSE IF i = 16 THEN 4 ELSE 3],
     [i \in 1..16 |-> IF i % 2 = 1 THEN 82 ELSE IF i = 16 THEN 157 ELSE 140],
     [i \in 1..16 |-> IF i = 16 THEN 244 ELSE 35],
     [i \in 1..16 |-> IF i <= 7 THEN 31 ELSE IF i <= 9 THEN 20 ELSE 0]}

\* two-byte events, each followed by a coin deposit whose second byte
\* balances the reply: coin deposits and manual dispenses of every routing
\* and of several coin types and numbers; a slug count and a status byte at
\* the edges of the ChangerStatus codes
PollPairs ==
    {Balanced(<<b0, b1, 82>>) : b0 \in {64, 95, 98, 115, 128, 181, 255}, b1 \in {0, 140, 255}}
    \cup {Balanced(<<35, b0, 82>>) : b0 \in {1, 9, 10, 15, 16, 19, 20, 31}}

\* longer replies: a two-byte event whose second byte has the pattern of a
\* first byte, unknown status bytes before and between events
PollTriples ==
    {<<140, 35, 7, 35, 40>>, <<12, 35, 7, 82, 121>>, <<82, 140, 35>>,
     <<35, 82, 0, 140>>, <<7, 0, 140, 110>>}

\* what poll gets for POLL: the short replies, each with the byte that
\* balances it, which is an event byte itself; the longer ones; the replies
\* that are no data
PollInputs ==
    {Ended(p, 16) : p \in {Balanced(q) : q \in BytesUpTo(PollBytes, MaxPollLen)}
                           \cup FullPollReplies \cup PollPairs \cup PollTriples}
    \cup StatusInputs({<<35>>}, {[i \in 1..16 |-> 35]}, 16)

\* replies of two statuses and more, up to the 8 that fill the 16-byte buffer
LongDiagReplies ==
    {<<16, 1, 21, 4, 3, 212>>, <<3, 0, 7, 247>>, <<17, 48, 18, 48, 126>>,
     <<17, 17, 18, 49, 19, 16, 21, 2, 6, 92>>,
     <<17, 1, 18, 1, 19, 1, 5, 195>>,
     [i \in 1..16 |-> IF i = 15 THEN 6 ELSE IF i = 16 THEN 118
                      ELSE IF i % 2 = 1 THEN 16 ELSE 3],
     [i \in 1..16 |-> IF i = 16 THEN 209 ELSE IF i % 2 = 1 THEN 6 ELSE 0]}

\* what l3_diagnostic_status gets for DIAGNOSTICS: the short replies, each
\* with the byte that balances it, and with a pair of category 0x06 whose
\* subcode balances it; the longer ones; a reply with the category 0x01 in
\* reads of 1, 3 and 5 bytes, which puts that byte on the second byte of a
\* pair; the replies that are no data
DiagInputs ==
    {Ended(p, 16) : p \in {Balanced(q) : q \in BytesUpTo(DiagBytes, MaxDiagLen)}
                           \cup {Balanced(Append(q, 6)) : q \in BytesUpTo(DiagBytes, MaxDiagLen)}
                           \cup LongDiagReplies}
    \cup {Handed(<<2, 0, 1, 0, 4, 0, 20, 230, 1>>, <<1, 3, 5>>, 16)}
    \cup StatusInputs({<<3>>}, {[i \in 1..16 |-> IF i % 2 = 1 THEN 16 ELSE 3]}, 16)

\* CoinAcceptor::poll up to its receive_response (lines 481-496)
poll ==
    /\ cpc = "idle"
    /\ coin.present
    /\ cop' = "poll"
    /\ bus_log' = <<SendEv(<<POLL_CMD>>)>>
    /\ cpc' = "poll_recv"
    /\ cret' = RetNone
    /\ cbuf' = <<>>
    /\ NoLocals
    /\ UNCHANGED coin

\* poll from the reply to its return (lines 496-595)
poll_reply(in) ==
    /\ cpc = "poll_recv"
    /\ rsp' = in
    /\ bus_log' = Append(bus_log, RecvEv)
    /\ poll_results' = PollResults(coin.coin_types, in)
    /\ CoinReturn(RetArray)
    /\ UNCHANGED <<cop, coin, cbuf, payvars, statuses>>

\* CoinAcceptor::l3_diagnostic_status up to its receive_response (lines 597-608)
l3_diagnostic_status ==
    /\ cpc = "idle"
    /\ coin.present
    /\ cop' = "l3_diagnostic_status"
    /\ bus_log' = <<SendEv(<<L3_CMD_PREFIX, L3_DIAG_CMD>>)>>
    /\ cpc' = "diag_recv"
    /\ cret' = RetNone
    /\ cbuf' = <<>>
    /\ NoLocals
    /\ UNCHANGED coin

\* l3_diagnostic_status from the reply to its return (lines 608-717)
l3_diagnostic_status_reply(in) ==
    /\ cpc = "diag_recv"
    /\ rsp' = in
    /\ bus_log' = Append(bus_log, RecvEv)
    /\ statuses' = DiagStatuses(in)
    /\ CoinReturn(RetArray)
    /\ UNCHANGED <<cop, coin, cbuf, payvars, poll_results>>

----------------------------------------------------------------------------
(* payout *)

U16 == 65536

\* the parameter byte of DISPENSE: i as u8 | num_to_pay << 4 (line 409)
DispenseByte(i, n) == BitOr(i, Shl(n, 4, 8))

\* payout_level2 from the top of the loop body for slot i with amount_paid =
\* paid, up to the next DISPENSE command, the end of the loop or a panic
\* (lines 395-428)
RECURSIVE L2Scan(_, _, _, _)
L2Scan(types, c, i, paid) ==
    IF i < 0 THEN [kind |-> "end", slot |-> 0, num_to_pay |-> 0, paid |-> paid]
    ELSE
      LET coin_i == types[i]
          owed == (c - paid) % U16
          n0 == (owed \div coin_i.unscaled_value) % 256
          n == IF n0 > coin_i.num_coins THEN coin_i.num_coins ELSE n0
      IN IF coin_i.present /\ ((c < paid /\ overflow_checks) \/ coin_i.unscaled_value = 0)
         THEN [kind |-> "panic", slot |-> i, num_to_pay |-> 0, paid |-> paid]
         ELSE IF coin_i.present /\ n > 0
         THEN [kind |-> "send", slot |-> i, num_to_pay |-> n, paid |-> paid]
         ELSE IF paid = c
         THEN [kind |-> "end", slot |-> i, num_to_pay |-> 0, paid |-> paid]
         ELSE L2Scan(types, c, i - 1, paid)

\* payout_level2 or payout_level3 returns amount_paid' after the bus calls
\* of log: payout goes on to update_coin_counts (lines 372-382, 324), a call
\* of the application gets the amount (lines 429, 477)
LevelReturn(name, log) ==
    IF name = "payout"
    THEN /\ bus_log' = Append(log, SendEv(<<TUBE_STATUS_CMD>>))
         /\ cpc' = "tube_recv"
         /\ cret' = RetNone
    ELSE /\ bus_log' = log
         /\ CoinReturn(RetU16(amount_paid'))

\* payout_level2 goes on from where it got to, log being the bus calls so
\* far: the next DISPENSE, a panic, or its return
L2Continue(name, r, log) ==
    /\ amount_paid' = r.paid
    /\ slot' = r.slot
    /\ num_to_pay' = r.num_to_pay
    /\ CASE r.kind = "send" ->
              /\ bus_log' = Append(log, SendEv(<<DISPENSE_CMD, DispenseByte(r.slot, r.num_to_pay)>>))
              /\ cpc' = "dispense_recv"
              /\ cret' = RetNone
         [] r.kind = "panic" ->
              /\ bus_log' = log
              /\ CoinReturn(RetPanic)
         [] r.kind = "end" -> LevelReturn(name, log)

\* the entry of payout, payout_level2 and payout_level3: &mut self and the
\* credit asked for
PayoutEnter(name, c) ==
    /\ cpc = "idle"
    /\ coin.present
    /\ cop' = name
    /\ credit' = c
    /\ cbuf' = <<>>
    /\ poll_results' = NoPollResults
    /\ statuses' = NoStatuses
    /\ rsp' = NoRsp
    /\ UNCHANGED coin

\* the body of payout_level2 up to its first bus call (lines 387-416)
Level2Start(name, c) ==
    L2Continue(name, L2Scan(coin.coin_types, c, NumCoinTypes - 1, 0), <<>>)

\* payout_level3 without its limit: the scaled credit is cut to a byte and
\* sent whatever its size
Level3StartNoLimit(name, c) ==
    /\ slot' = 0
    /\ num_to_pay' = 0
    /\ amount_paid' = 0
    /\ IF coin.scaling_factor = 0
       THEN /\ bus_log' = <<>>
            /\ CoinReturn(RetPanic)
       ELSE /\ bus_log' = <<SendEv(<<L3_CMD_PREFIX, L3_PAYOUT_CMD,
                                     (c \div coin.scaling_factor) % 256>>)>>
            /\ cpc' = "l3_payout_recv"
            /\ cret' = RetNone

\* the body of payout_level3 up to its first bus call or its return of 0
\* (lines 432-443)
Level3Start(name, c) ==
    /\ slot' = 0
    /\ num_to_pay' = 0
    /\ amount_paid' = 0
    /\ IF coin.scaling_factor = 0
       THEN /\ bus_log' = <<>>
            /\ CoinReturn(RetPanic)
       ELSE IF c \div coin.scaling_factor > 255
       THEN LevelReturn(name, <<>>)
       ELSE /\ bus_log' = <<SendEv(<<L3_CMD_PREFIX, L3_PAYOUT_CMD,
                                     c \div coin.scaling_factor>>)>>
            /\ cpc' = "l3_payout_recv"
            /\ cret' = RetNone

\* CoinAcceptor::payout up to the first bus call that waits for a reply
\* (lines 355-370): the level 3 way with the alternative payout, else the
\* level 2 way
payout(c) ==
    /\ PayoutEnter("payout", c)
    /\ IF coin.l3_features.present /\ coin.l3_features.alt_payout_cmd_supported
       THEN Level3Start("payout", c)
       ELSE Level2Start("payout", c)

\* CoinAcceptor::payout_level2 called by the application (pub fn, line 387)
payout_level2(c) ==
    /\ PayoutEnter("payout_level2", c)
    /\ Level2Start("payout_level2", c)

\* CoinAcceptor::payout_level3 called by the application (pub fn, line 432):
\* no look at the feature level or the features of the acceptor
payout_level3(c) ==
    /\ PayoutEnter("payout_level3", c)
    /\ Level3Start("payout_level3", c)

\* payout_level2 from the return of send_data_and_confirm_ack to the next bus
\* call (lines 416-428, then as L2Continue)
payout_level2_reply(in) ==
    /\ cpc = "dispense_recv"
    /\ rsp' = in
    /\ Len(bus_log) < MaxBusLog
    /\ LET value == coin.coin_types[slot].unscaled_value
           acked == ConfirmAck(in.res)
           num_to_dispense == IF num_to_pay > 16 THEN 16 ELSE num_to_pay
           overflow == value * num_to_pay >= U16
                       \/ amount_paid + ((value * num_to_pay) % U16) >= U16
           paid == IF acked THEN (amount_paid + value * num_to_pay) % U16 ELSE amount_paid
           left == IF acked THEN num_to_pay - num_to_dispense ELSE num_to_pay
           log == Append(bus_log, RecvEv)
       IN IF acked /\ overflow /\ overflow_checks
          THEN L2Continue(cop, [kind |-> "panic", slot |-> slot, num_to_pay |-> num_to_pay,
                           paid |-> amount_paid], log)
          ELSE IF left > 0
          THEN L2Continue(cop, [kind |-> "send", slot |-> slot, num_to_pay |-> left,
                           paid |-> paid], log)
          ELSE IF paid = credit
          THEN L2Continue(cop, [kind |-> "end", slot |-> slot, num_to_pay |-> 0,
                           paid |-> paid], log)
          ELSE L2Continue(cop, L2Scan(coin.coin_types, credit, slot - 1, paid), log)
    /\ UNCHANGED <<cop, coin, cbuf, credit, outvars>>

\* payout_level3: send_data_and_confirm_ack(PAYOUT) returns, its value is
\* dropped, and the first PAYOUT_VALUE_POLL is sent (lines 443-449)
payout_level3_reply(in) ==
    /\ cpc = "l3_payout_recv"
    /\ rsp' = in
    /\ bus_log' = bus_log \o <<RecvEv, SendEv(<<L3_CMD_PREFIX, L3_PAYOUT_VALUE_POLL_CMD>>)>>
    /\ cpc' = "l3_value_poll_recv"
    /\ UNCHANGED <<cop, coin, cbuf, cret, payvars, outvars>>

\* the loop of PAYOUT_VALUE_POLL left at the first reply, whatever it is
payout_value_poll_reply_once(in) ==
    /\ cpc = "l3_value_poll_recv"
    /\ rsp' = in
    /\ Len(bus_log) < MaxBusLog
    /\ bus_log' = bus_log \o
           <<RecvEv, SendEv(<<L3_CMD_PREFIX, L3_PAYOUT_STATUS_CMD>>)>>
    /\ cpc' = "l3_status_recv"
    /\ UNCHANGED <<cop, coin, cbuf, cret, payvars, outvars>>

\* payout_level3: one turn of `while !complete` from the reply on
\* (lines 448-464); only StatusMsg(ACK) ends the loop
payout_value_poll_reply(in) ==
    /\ cpc = "l3_value_poll_recv"
    /\ rsp' = in
    /\ Len(bus_log) < MaxBusLog
    /\ IF in.res = StatusMsg("ACK")
       THEN /\ bus_log' = bus_log \o
                   <<RecvEv, SendEv(<<L3_CMD_PREFIX, L3_PAYOUT_STATUS_CMD>>)>>
            /\ cpc' = "l3_status_recv"
       ELSE /\ bus_log' = bus_log \o
                   <<RecvEv, SendEv(<<L3_CMD_PREFIX, L3_PAYOUT_VALUE_POLL_CMD>>)>>
            /\ cpc' = "l3_value_poll_recv"
    /\ UNCHANGED <<cop, coin, cbuf, cret, payvars, outvars>>

\* the sum of payout_level3 over bytes i.. of the PAYOUT_STATUS reply
\* (lines 467-472); ovf records an overflow of the u16 arithmetic
RECURSIVE L3Sum(_, _, _, _)
L3Sum(types, b, i, acc) ==
    IF i = Len(b) THEN acc
    ELSE IF types[i].present
    THEN LET prod == types[i].unscaled_value * At(b, i)
         IN L3Sum(types, b, i + 1,
                  [paid |-> (acc.paid + prod) % U16,
                   ovf |-> acc.ovf \/ prod >= U16 \/ acc.paid + (prod % U16) >= U16])
    ELSE L3Sum(types, b, i + 1, acc)

\* payout_level3 from the PAYOUT_STATUS reply to its return (lines 465-478).
\* The code gets here when a reply to PAYOUT_VALUE_POLL is StatusMsg(ACK);
\* receive_response returns that for no reply, so the step is part of no
\* behaviour of the coin acceptor.
payout_status_reply(in) ==
    /\ cpc = "l3_status_recv"
    /\ rsp' = in
    /\ LET sum == IF in.res.kind = "Data"
                  THEN L3Sum(coin.coin_types, SubSeq(in.bytes, 1, in.res.n), 0,
                             [paid |-> 0, ovf |-> FALSE])
                  ELSE [paid |-> 0, ovf |-> FALSE]
       IN IF sum.ovf /\ overflow_checks
          THEN /\ bus_log' = Append(bus_log, RecvEv)
               /\ CoinReturn(RetPanic)
               /\ UNCHANGED amount_paid
          ELSE /\ amount_paid' = sum.paid
               /\ LevelReturn(cop, Append(bus_log, RecvEv))
    /\ UNCHANGED <<cop, coin, cbuf, credit, slot, num_to_pay, outvars>>

\* PAYOUT_VALUE_POLL replies (progress bytes) and PAYOUT_STATUS replies
\* (coins paid per slot), into the 16-byte buffer
ValuePollInputs ==
    {Ended(<<2, 255>>, 16)}
    \cup StatusInputs({<<2>>}, {Pad(<<2>>, 16)}, 16)
PayoutStatusInputs ==
    {Ended(p, 16) : p \in {<<0, 1>>, <<2, 0, 255>>, <<0, 1, 3, 253>>,
                            <<255, 255, 255, 255, 255, 6>>,
                            Balanced(Pad(<<0, 1>>, 15))}}
    \cup StatusInputs({<<2>>}, {Pad(<<2, 1>>, 16)}, 16)

Credits == {0, 10, 35, 300, 500, 65535}

\* credits of the calls of payout_level2 and payout_level3 by the application
DirectCredits == {10, 300}

CoinInit ==
    /\ cpc = "idle"
    /\ cop = "none"
    /\ coin = NoCoinAcceptor
    /\ bus_log = <<>>
    /\ cbuf = <<>>
    /\ credit = 0
    /\ amount_paid = 0
    /\ slot = 0
    /\ num_to_pay = 0
    /\ cret = RetNone
    /\ poll_results = NoPollResults
    /\ statuses = NoStatuses
    /\ rsp = NoRsp

----------------------------------------------------------------------------
(* The cashless device (cashless_device.rs) *)

VARIABLES
    cashless,     \* the CashlessDevice
    poll_cmd,     \* the argument of the last call of poll_response_length
    poll_len      \* what that call returned

cashvars == <<cashless, poll_cmd, poll_len>>

\* struct CashlessDevice (lines 80-104) of the given
\* CashlessDeviceFeatureLevel (1, 2 or 3); no code reads or writes the
\* other fields
CashlessDevice(level) ==
    [present |-> TRUE, feature_level |-> level,
     country_code |-> 0, scale_factor |-> 0, decimal_places |-> 0,
     max_response_time |-> 0, can_restore_funds |-> FALSE,
     multivend_capable |-> FALSE, has_display |-> FALSE,
     supports_cash_sale_cmd |-> FALSE,
     manufacturer_code |-> <<0, 0>>,
     serial_number |-> [i \in 1..11 |-> 0],
     model_number |-> [i \in 1..11 |-> 0],
     software_version |-> <<0, 0>>,
     supports_ftl |-> FALSE, monetary_format_32_bit |-> FALSE,
     supports_multicurrency |-> FALSE, supports_negative_vend |-> FALSE,
     supports_data_entry |-> FALSE, supports_always_idle |-> FALSE]

\* no CashlessDevice has been built
NoCashlessDevice == [CashlessDevice(1) EXCEPT !.present = FALSE]

\* first bytes of the poll replies
POLL_REPLY_JUST_RESET == 0
POLL_REPLY_READER_CONFIG_DATA == 1
POLL_REPLY_DISPLAY_REQUEST == 2
POLL_REPLY_BEGIN_SESSION == 3
POLL_REPLY_SESSION_CANCEL_REQUEST == 4
POLL_REPLY_VEND_APPROVED == 5
POLL_REPLY_VEND_DENIED == 6
POLL_REPLY_END_SESSION == 7
POLL_REPLY_CANCELLED == 8
POLL_REPLY_PERIPHERAL_ID == 9
POLL_REPLY_MALFUNCTION == 10
POLL_REPLY_OUT_OF_SEQUENCE == 11
POLL_REPLY_REVALUE_APPROVED == 15
POLL_REPLY_REVALUE_DENIED == 15
POLL_REPLY_REVALUE_LIMIT_AMOUNT == 15
POLL_REPLY_TIME_DATE_REQUEST == 17
POLL_REPLY_DATA_ENTRY_REQUEST == 18

\* poll_response_length has not been called
NoPollCmd == -1

\* what poll_response_length hands back: a length, or nothing when no arm
\* of its match takes the byte (the match has no catch-all arm)
NoLength == [kind |-> "none", n |-> 0]
Length(n) == [kind |-> "u8", n |-> n]

\* poll_response_length with the lengths of PERIPHERAL_ID and
\* OUT_OF_SEQUENCE taken without a look at the feature level
poll_response_length_one_level(level, cmd) ==
    CASE cmd = POLL_REPLY_JUST_RESET -> Length(8)
      [] cmd = POLL_REPLY_DISPLAY_REQUEST -> Length(34)
      [] cmd = POLL_REPLY_BEGIN_SESSION -> IF level = 1 THEN Length(3) ELSE Length(10)
      [] cmd = POLL_REPLY_SESSION_CANCEL_REQUEST -> Length(1)
      [] cmd = POLL_REPLY_VEND_APPROVED -> Length(5)
      [] cmd = POLL_REPLY_VEND_DENIED -> Length(1)
      [] cmd = POLL_REPLY_END_SESSION -> Length(1)
      [] cmd = POLL_REPLY_CANCELLED -> Length(1)
      [] cmd = POLL_REPLY_PERIPHERAL_ID -> Length(30)
      [] cmd = POLL_REPLY_MALFUNCTION -> Length(2)
      [] cmd = POLL_REPLY_OUT_OF_SEQUENCE -> Length(2)
      [] cmd = POLL_REPLY_REVALUE_APPROVED -> Length(1)
      [] cmd = POLL_REPLY_TIME_DATE_REQUEST -> Length(1)
      [] cmd = POLL_REPLY_DATA_ENTRY_REQUEST -> Length(2)
      [] OTHER -> NoLength

\* CashlessDevice::poll_response_length (lines 110-147): the arms in the
\* order of the match; 0x0F is taken by the REVALUE_APPROVED arm, the two
\* arms after it name the same byte and are never reached
poll_response_length(level, cmd) ==
    IF cmd = POLL_REPLY_JUST_RESET THEN Length(8)
    ELSE IF cmd = POLL_REPLY_DISPLAY_REQUEST THEN Length(34)
    ELSE IF cmd = POLL_REPLY_BEGIN_SESSION
         THEN (IF level = 1 THEN Length(3) ELSE Length(10))
    ELSE IF cmd = POLL_REPLY_SESSION_CANCEL_REQUEST THEN Length(1)
    ELSE IF cmd = POLL_REPLY_VEND_APPROVED THEN Length(5)
    ELSE IF cmd = POLL_REPLY_VEND_DENIED THEN Length(1)
    ELSE IF cmd = POLL_REPLY_END_SESSION THEN Length(1)
    ELSE IF cmd = POLL_REPLY_CANCELLED THEN Length(1)
    ELSE IF cmd = POLL_REPLY_PERIPHERAL_ID
         THEN (IF level = 3 THEN Length(34) ELSE Length(30))
    ELSE IF cmd = POLL_REPLY_MALFUNCTION THEN Length(2)
    ELSE IF cmd = POLL_REPLY_OUT_OF_SEQUENCE
         THEN (IF level = 1 THEN Length(1) ELSE Length(2))
    ELSE IF cmd = POLL_REPLY_REVALUE_APPROVED THEN Length(1)
    ELSE IF cmd = POLL_REPLY_REVALUE_DENIED THEN Length(1)
    ELSE IF cmd = POLL_REPLY_REVALUE_LIMIT_AMOUNT THEN Length(3)
    ELSE IF cmd = POLL_REPLY_TIME_DATE_REQUEST THEN Length(1)
    ELSE IF cmd = POLL_REPLY_DATA_ENTRY_REQUEST THEN Length(2)
    ELSE NoLength

\* a call of poll_response_length on the device
call_poll_response_length(cmd) ==
    /\ cashless.present
    /\ poll_cmd' = cmd
    /\ poll_len' = poll_response_length(cashless.feature_level, cmd)
    /\ UNCHANGED cashless

\* the device as its owner built it (all fields are pub; init has no body)
CashInit(levels) ==
    /\ cashless \in {CashlessDevice(l) : l \in levels}
    /\ poll_cmd = NoPollCmd
    /\ poll_len = NoLength

\* the specifications without a cashless device
NoCash ==
    /\ cashless = NoCashlessDevice
    /\ poll_cmd = NoPollCmd
    /\ poll_len = NoLength

vars == <<linkvars, coinvars, cashvars>>


----------------------------------------------------------------------------
(* The link layer: one operation of Mdb per behaviour *)

LinkTick == 50000

Init == LinkInit({U32(0, 0)}, BOOLEAN) /\ CoinInit /\ NoCash

DoSendData ==
    /\ lpc = "idle"
    /\ \E m \in Msgs : send_data(m)
    /\ UNCHANGED <<coinvars, cashvars>>
DoSendStatus ==
    /\ lpc = "idle"
    /\ \E s \in StatusNames : send_status_message(s)
    /\ UNCHANGED <<coinvars, cashvars>>
DoReceive ==
    /\ lpc = "idle"
    /\ \E r \in Replies, blen \in 0..MaxBuf : receive_response(r, blen)
    /\ UNCHANGED <<coinvars, cashvars>>
DoConfirmAck ==
    /\ lpc = "idle"
    /\ \E m \in Payloads(MaxAckMsg) \ {<<>>}, r \in Replies : send_data_and_confirm_ack(m, r)
    /\ UNCHANGED <<coinvars, cashvars>>
DoReceiveLoop == ReceiveLoop /\ UNCHANGED <<coinvars, cashvars>>
DoTick == Tick(LinkTick, LinkTick) /\ UNCHANGED <<coinvars, cashvars>>

Next ==
    \/ DoSendData
    \/ DoSendStatus
    \/ DoReceive
    \/ DoConfirmAck
    \/ DoReceiveLoop
    \/ DoTick

Spec == Init /\ [][Next]_vars

----------------------------------------------------------------------------
(* The timeout of receive_response, for every phase of the 32-bit counter *)

\* counter values at entry: 0, 2^32 - 50001, 2^32 - 50000, 2^32 - 1
StartVals == {U32(0, 0), U32(65535, 15535), U32(65535, 15536), U32(65535, 65535)}

TimerTicks == {12500, 20000}

\* replies seen by the timeout model: silence and a bare ACK
TimerReplies == {<<>>, Frame(<<>>, 0)}

InitTimer == LinkInit(StartVals, BOOLEAN) /\ CoinInit /\ NoCash

DoReceiveT ==
    /\ lpc = "idle"
    /\ \E r \in TimerReplies : receive_response(r, MaxBuf)
    /\ UNCHANGED <<coinvars, cashvars>>
DoTickT == (\E dt \in TimerTicks : Tick(dt, MaxElapsed)) /\ UNCHANGED <<coinvars, cashvars>>

NextTimer ==
    \/ DoReceiveT
    \/ DoReceiveLoop
    \/ DoTickT

SpecTimer == InitTimer /\ [][NextTimer]_vars

----------------------------------------------------------------------------
(* The scratch buffer of receive_response: replies longer than one read,   *)
(* handed out by the UART in reads of every size                           *)

LongReplyLen == 5        \* payload bytes of the long replies

\* an ACK, and frames of LongReplyLen payload bytes: 2, 3, 4, ... and all 0x01
ScratchReplies ==
    {Frame(<<>>, 0)}
    \cup {Frame(p, Checksum(p)) : p \in {[i \in 1..LongReplyLen |-> i + 1],
                                          [i \in 1..LongReplyLen |-> 1]}}

\* buffer lengths of the callers: send_data_and_confirm_ack (&mut []) and
\* the 16-byte and 72-byte buffers of the coin acceptor
ScratchBufs == {0, 16, 72}

InitScratch == LinkInit({U32(0, 0)}, BOOLEAN) /\ CoinInit /\ NoCash

DoReceiveLong ==
    /\ lpc = "idle"
    /\ \E r \in ScratchReplies, blen \in ScratchBufs : receive_response(r, blen)
    /\ UNCHANGED <<coinvars, cashvars>>

NextScratch ==
    \/ DoReceiveLong
    \/ DoReceiveLoop
    \/ DoTick

SpecScratch == InitScratch /\ [][NextScratch]_vars

----------------------------------------------------------------------------
(* The coin acceptor: init, then any sequence of its operations *)

\* the timer starts one millisecond before it wraps, so the wait of init wraps it
InitCoin == LinkInit({U32(Limb - 1, Limb - 1000)}, BOOLEAN) /\ CoinInit /\ NoCash

DoInit ==
    /\ U32Value(Add32(counter, 1000 * RESET_DELAY_MS)) <= MaxUptime
    /\ init
    /\ UNCHANGED <<linkvars, cashvars>>
DoInitDelayDone ==
    /\ init_delay_done
    /\ UNCHANGED <<lpc, op, msg, tx, reply, rx, buf, bytes_out, offset,
                   calculated_checksum, end_of_message, result, ack_ret,
                   start_counter_val, elapsed, check_elapsed, overflow_checks,
                   cashvars>>
DoReceiveResponsePanic == receive_response_panic /\ UNCHANGED <<linkvars, cashvars>>
DoInitSetupReply ==
    /\ cpc = "setup_recv"
    /\ \E in \in SetupInputs : init_setup_reply(in)
    /\ UNCHANGED <<linkvars, cashvars>>
DoUpdateCoinCountsReply ==
    /\ cpc = "tube_recv"
    /\ \E in \in TubeInputs : update_coin_counts_reply(in)
    /\ UNCHANGED <<linkvars, cashvars>>
DoInitIdentReply ==
    /\ cpc = "ident_recv"
    /\ \E in \in IdentInputs : init_ident_reply(in)
    /\ UNCHANGED <<linkvars, cashvars>>
DoL3EnableFeatures ==
    /\ cpc = "idle"
    /\ \E m \in {0, 3} : l3_enable_features(m)
    /\ UNCHANGED <<linkvars, cashvars>>
DoL3EnableFeaturesReply ==
    /\ cpc = "feature_recv"
    /\ \E in \in AckInputs : l3_enable_features_reply(in)
    /\ UNCHANGED <<linkvars, cashvars>>
DoEnableCoins ==
    /\ cpc = "idle"
    /\ \E m \in CoinMasks : enable_coins(m)
    /\ UNCHANGED <<linkvars, cashvars>>
DoEnableCoinsReply ==
    /\ cpc = "coin_type_recv"
    /\ \E in \in AckInputs : enable_coins_reply(in)
    /\ UNCHANGED <<linkvars, cashvars>>
DoPoll == poll /\ UNCHANGED <<linkvars, cashvars>>
DoPollReply ==
    /\ cpc = "poll_recv"
    /\ \E in \in PollInputs : poll_reply(in)
    /\ UNCHANGED <<linkvars, cashvars>>
DoDiag == l3_diagnostic_status /\ UNCHANGED <<linkvars, cashvars>>
DoDiagReply ==
    /\ cpc = "diag_recv"
    /\ \E in \in DiagInputs : l3_diagnostic_status_reply(in)
    /\ UNCHANGED <<linkvars, cashvars>>
DoPayout ==
    /\ cpc = "idle"
    /\ \E c \in Credits : payout(c)
    /\ UNCHANGED <<linkvars, cashvars>>
DoPayoutLevel2 ==
    /\ cpc = "idle"
    /\ \E c \in DirectCredits : payout_level2(c)
    /\ UNCHANGED <<linkvars, cashvars>>
DoPayoutLevel3 ==
    /\ cpc = "idle"
    /\ \E c \in DirectCredits : payout_level3(c)
    /\ UNCHANGED <<linkvars, cashvars>>
DoPayoutLevel2Reply ==
    /\ cpc = "dispense_recv"
    /\ \E in \in AckInputs : payout_level2_reply(in)
    /\ UNCHANGED <<linkvars, cashvars>>
DoPayoutLevel3Reply ==
    /\ cpc = "l3_payout_recv"
    /\ \E in \in AckInputs : payout_level3_reply(in)
    /\ UNCHANGED <<linkvars, cashvars>>
DoPayoutValuePollReply ==
    /\ cpc = "l3_value_poll_recv"
    /\ \E in \in ValuePollInputs : payout_value_poll_reply(in)
    /\ UNCHANGED <<linkvars, cashvars>>

NextCoin ==
    \/ DoInit
    \/ DoInitDelayDone
    \/ DoReceiveResponsePanic
    \/ DoInitSetupReply
    \/ DoUpdateCoinCountsReply
    \/ DoInitIdentReply
    \/ DoL3EnableFeatures
    \/ DoL3EnableFeaturesReply
    \/ DoEnableCoins
    \/ DoEnableCoinsReply
    \/ DoPoll
    \/ DoPollReply
    \/ DoDiag
    \/ DoDiagReply
    \/ DoPayout
    \/ DoPayoutLevel2
    \/ DoPayoutLevel3
    \/ DoPayoutLevel2Reply
    \/ DoPayoutLevel3Reply
    \/ DoPayoutValuePollReply

SpecCoin == InitCoin /\ [][NextCoin]_vars

----------------------------------------------------------------------------
(* The cashless device: poll_response_length on every byte and level *)

FeatureLevels == {1, 2, 3}
AllBytes == 0..255

InitCashless == LinkInit({U32(0, 0)}, BOOLEAN) /\ CoinInit /\ CashInit(FeatureLevels)

DoPollResponseLength ==
    /\ \E cmd \in AllBytes : call_poll_response_length(cmd)
    /\ UNCHANGED <<linkvars, coinvars>>

NextCashless == DoPollResponseLength

SpecCashless == InitCashless /\ [][NextCashless]_vars

----------------------------------------------------------------------------
(* Properties of the link layer *)

\* the payload bytes of a reply frame (all logical bytes but the last)
PayloadOf(r) == [i \in 1..(Len(r) - 1) |-> r[i][2]]

\* the last logical byte of a reply frame
LastOf(r) == r[Len(r)][2]

\* receive_response has returned and the whole reply was there before the timeout
Received == lpc = "done" /\ op = "receive_response" /\ elapsed < TimeoutTicks

\* C1: a reply of k >= 1 payload bytes and a correct checksum byte, received
\* into a buffer of at least k bytes, yields Data(k), the k payload bytes at
\* the start of the buffer, and exactly one ACK byte (0x00, mode bit 0) sent.
C1_GoodFrameGivesData ==
    (/\ Received
     /\ Len(reply) >= 2
     /\ LastOf(reply) = Checksum(PayloadOf(reply))
     /\ Len(buf) >= Len(reply) - 1)
    => /\ result = Data(Len(reply) - 1)
       /\ SubSeq(buf, 1, Len(reply) - 1) = PayloadOf(reply)
       /\ tx = <<<<0, 0>>>>

\* C2: a reply of one byte with mode bit 1 yields StatusMsg(ACK) for 0x00,
\* StatusMsg(NAK) for 0xFF and StatusMsg(Invalid) for anything else, and the
\* master transmits nothing.
C2_BareStatusByte ==
    (Received /\ Len(reply) = 1)
    => /\ result = StatusMsg(IF LastOf(reply) = 0 THEN "ACK"
                             ELSE IF LastOf(reply) = 255 THEN "NAK"
                             ELSE "Invalid")
       /\ tx = <<>>

\* C3: the last byte send_data transmits is the sum of the payload bytes
\* modulo 256; mode bits are not part of the sum.
C3_ChecksumIsLastByte ==
    (lpc = "done" /\ op = "send_data")
    => /\ Len(tx) >= 1
       /\ tx[Len(tx)][2] = Checksum(msg)

C3_Witness ==
    /\ lpc = "done" /\ op = "send_data"
    /\ Len(msg) = MaxMsg
    /\ SumBytes(msg) > 255
    /\ tx[Len(tx)][2] = SumBytes(msg) - 256

\* C4: send_data transmits n + 1 logical bytes: the payload in order, then
\* the checksum; exactly one of them has mode bit 1, it is payload byte 0,
\* and the checksum byte has mode bit 0.
C4_Framing ==
    (lpc = "done" /\ op = "send_data")
    => /\ Len(tx) = Len(msg) + 1
       /\ \A i \in 1..Len(msg) : tx[i][2] = msg[i]
       /\ {i \in 1..Len(tx) : tx[i][1] = 1} = {1}
       /\ \A i \in 2..Len(tx) : tx[i][1] = 0

C4_Witness ==
    /\ lpc = "done" /\ op = "send_data"
    /\ msg = <<1, 170, 255>>
    /\ tx = <<<<1, 1>>, <<0, 170>>, <<0, 255>>, <<0, 170>>>>

\* C5: a reply of k >= 1 payload bytes whose last byte is not the checksum of
\* the payload yields StatusMsg(ChecksumErr), and the master transmits nothing.
C5_BadChecksumIsSilent ==
    (/\ Received
     /\ Len(reply) >= 2
     /\ LastOf(reply) # Checksum(PayloadOf(reply))
     /\ Len(buf) >= Len(reply) - 1)
    => /\ result = StatusMsg("ChecksumErr")
       /\ tx = <<>>

\* C6: receive_response reports NoReply only once 50 ms have elapsed since it
\* was entered, and when no byte arrives it does not go on polling after a
\* timeout check made 50 ms or more after entry; it does so for every
\* starting value of the counter.
C6_TimeoutAfter50ms ==
    /\ result.kind # "Panic"
    /\ (lpc = "done" /\ result = StatusMsg("NoReply")) => elapsed >= TimeoutTicks
    /\ (lpc = "recv" /\ reply = <<>>) => check_elapsed < TimeoutTicks

\* C7: a reply with more payload bytes than the buffer holds yields
\* StatusMsg(BufOverflow) with nothing written past the buffer and no ACK
\* sent; a reply whose payload exactly fits is not an overflow.
C7_OverflowOnlyWhenTooLong ==
    (Received /\ Len(reply) >= 2)
    => /\ bytes_out <= Len(buf)
       /\ (Len(reply) - 1 > Len(buf)) => (result = StatusMsg("BufOverflow") /\ tx = <<>>)
       /\ (Len(reply) - 1 = Len(buf)) => result # StatusMsg("BufOverflow")

\* C8: send_data_and_confirm_ack transmits the command frame once and returns
\* true exactly when the reply is the bare ACK byte (0x00 with mode bit 1).
C8_ConfirmAckIffAck ==
    (lpc = "done" /\ op = "send_data_and_confirm_ack")
    => /\ Len(tx) = Len(msg) + 1
       /\ \A i \in 1..Len(msg) : tx[i][2] = msg[i]
       /\ ack_ret => reply = Frame(<<>>, 0)
       /\ (reply = Frame(<<>>, 0) /\ elapsed < TimeoutTicks) => ack_ret

\* C9: send_status_message transmits exactly one byte with mode bit 0 and no
\* checksum for ACK, NAK and RET, and nothing for any other status.
C9_StatusMessageOnlyAckNakRet ==
    (lpc = "done" /\ op = "send_status_message")
    => IF msg[1] \in {0, 255, 170}
       THEN tx = <<<<0, msg[1]>>>>
       ELSE tx = <<>>

C9_Witness ==
    /\ lpc = "done" /\ op = "send_status_message"
    /\ msg = <<4>>
    /\ tx = <<>>

----------------------------------------------------------------------------
(* Properties of the coin acceptor *)

\* a send or a receive, not a wait
IsBusTransfer(e) == e.ev \in {"send", "recv"}

\* C10: in every operation of the coin acceptor each command sent on the bus
\* is followed by exactly one receive before the next command is sent: in the
\* bus calls of an operation the odd ones are sends and the even ones are
\* receives, so no reply is left unread when the next command goes out.
C10_CommandsAndRepliesAlternate ==
    LET calls == SelectSeq(bus_log, IsBusTransfer)
    IN \A i \in 1..Len(calls) :
          calls[i].ev = (IF i % 2 = 1 THEN "send" ELSE "recv")

\* init has received the reply to SETUP and no later reply: receive_response
\* has returned
AfterSetupReply ==
    /\ cop = "init"
    /\ cpc \in {"idle", "tube_recv"}
    /\ Len(bus_log) \in {4, 5}
    /\ rsp.res.kind # "Panic"

\* C11: when the reply to SETUP is anything but a data frame of exactly 23
\* bytes, init returns None, there is no CoinAcceptor, and no command follows
\* SETUP on the bus.
C11_InitAbortsOnBadSetup ==
    (AfterSetupReply /\ rsp.res # Data(23)) =>
        /\ cpc = "idle"
        /\ cret = RetNone
        /\ ~coin.present
        /\ bus_log = <<SendEv(<<RESET_CMD>>), DelayEv(RESET_DELAY_MS),
                       SendEv(<<SETUP_CMD>>), RecvEv>>

\* init has returned None after a SETUP reply of 24 bytes
C11_Witness ==
    /\ AfterSetupReply
    /\ rsp.res = Data(24)
    /\ cpc = "idle"
    /\ cret = RetNone

\* bit i of the 16-bit value whose high byte is hi and low byte is lo
BitOfWord(hi, lo, i) == ((hi * 256 + lo) \div (2 ^ i)) % 2 = 1

\* C12: after init has decoded a 23-byte SETUP reply, slot i of the coin type
\* table is present iff credit byte i (reply byte 7+i) is non-zero, and a
\* present slot has unscaled_value = credit byte i * scaling factor (byte 3)
\* and routeable_to_tube = bit i of the routing mask (bytes 5, 6, big-endian),
\* also when zero credit bytes lie between non-zero ones.
C12_SlotIndexIsCreditIndex ==
    (AfterSetupReply /\ rsp.res = Data(23)) =>
        \A i \in 0..(NumCoinTypes - 1) :
            LET ct == coin.coin_types[i]
                credit_i == At(rsp.bytes, 7 + i)
            IN /\ ct.present <=> credit_i # 0
               /\ ct.present =>
                    /\ ct.unscaled_value = credit_i * At(rsp.bytes, 3)
                    /\ ct.routeable_to_tube
                         <=> BitOfWord(At(rsp.bytes, 5), At(rsp.bytes, 6), i)

\* update_coin_counts has just returned: rsp is the reply to TUBE_STATUS
AfterTubeReply ==
    \/ cop = "init" /\ cpc = "ident_recv"
    \/ cop = "init" /\ cpc = "idle" /\ Len(bus_log) = 6
    \/ cop = "payout" /\ cpc = "idle" /\ cret.kind = "u16"

\* C13: after a tube status refresh from an 18-byte TUBE_STATUS reply, every
\* existing slot i has num_coins = reply byte 2+i and tube_full = bit i of
\* the 16-bit bitmap of reply bytes 0 and 1 (slots 0..7 as well as 8..15 can
\* be full); absent slots stay absent.
C13_TubeStatusDecoded ==
    (AfterTubeReply /\ rsp.res = Data(18)) =>
        \A i \in 0..(NumCoinTypes - 1) :
            LET ct == coin.coin_types[i]
            IN IF ct.present
               THEN /\ ct.num_coins = At(rsp.bytes, 2 + i)
                    /\ ct.tube_full <=> BitOfWord(At(rsp.bytes, 0), At(rsp.bytes, 1), i)
               ELSE ct = NoCoinType

----------------------------------------------------------------------------
(* Properties of poll *)

\* poll has returned: rsp is the reply to POLL, poll_results the array returned
PollDone == cop = "poll" /\ cpc = "idle" /\ cret = RetArray

\* a status byte that is a ChangerStatus code: 0x01-0x09 or 0x10-0x13
KnownStatus(b0) == b0 \in 1..9 \/ b0 \in 16..19

\* the events of a POLL reply as the protocol describes them, from byte k
\* (counted from 1) on: the position and the bytes of each event, in order.
\* A first byte 1xxxxxxx is a manual dispense and 01xxxxxx a coin deposit,
\* both with a second byte; 001xxxxx is a slug count; 000xxxxx is a status
\* when it is a known code.  An unknown status byte and a first byte with
\* no second byte give no event.
RECURSIVE Tokens(_, _)
Tokens(b, k) ==
    IF k > Len(b) THEN <<>>
    ELSE IF b[k] >= 64
    THEN IF k = Len(b) THEN <<>>
         ELSE <<[kind |-> IF b[k] >= 128 THEN "ManualDispense" ELSE "Coin",
                 pos |-> k, b0 |-> b[k], b1 |-> b[k + 1]]>> \o Tokens(b, k + 2)
    ELSE IF b[k] >= 32
    THEN <<[kind |-> "SlugCount", pos |-> k, b0 |-> b[k], b1 |-> 0]>> \o Tokens(b, k + 1)
    ELSE IF KnownStatus(b[k])
    THEN <<[kind |-> "Status", pos |-> k, b0 |-> b[k], b1 |-> 0]>> \o Tokens(b, k + 1)
    ELSE Tokens(b, k + 1)

\* the events of the reply poll got: none when it was a status token
ReplyTokens == IF rsp.res.kind = "Data" THEN Tokens(rsp.bytes, 1) ELSE <<>>

\* what an event of the array tells of its first byte: the coin type of a
\* two-byte event, the value of a one-byte event
Mark(e) == IF e.kind \in {"Coin", "ManualDispense"} THEN e.coin_type ELSE e.value

\* the same of an event of the reply
TokenMark(tk) ==
    CASE tk.kind \in {"Coin", "ManualDispense"} -> tk.b0 % 16
      [] tk.kind = "SlugCount" -> tk.b0 % 32
      [] OTHER -> tk.b0

\* C14: the events poll returns are in the order of their first bytes in the
\* reply, packed from index 0 with None in every other entry, none twice, at
\* most 16 of them for a reply that fits the 16-byte buffer, and none at all
\* when the reply is a status token.
C14_EventsInWireOrder ==
    PollDone =>
        /\ Len(ReplyTokens) <= 16
        /\ \A i \in 0..15 :
              IF i < Len(ReplyTokens)
              THEN /\ poll_results[i].kind = ReplyTokens[i + 1].kind
                   /\ Mark(poll_results[i]) = TokenMark(ReplyTokens[i + 1])
              ELSE poll_results[i] = NoEvent
        /\ \A i, j \in 1..Len(ReplyTokens) : i < j => ReplyTokens[i].pos < ReplyTokens[j].pos

\* poll has returned 16 events, one for each byte of a 16-byte reply
C14_Witness ==
    /\ PollDone
    /\ rsp.res = Data(16)
    /\ \A i \in 0..14 : poll_results[i] = SlugCount(16)
    /\ poll_results[15] = SlugCount(17)

\* C15: poll takes the reply bytes strictly in order: a first byte with bit 7
\* set is a manual dispense and takes the next byte with it, otherwise one
\* with bit 6 set is a coin deposit and takes the next byte with it, otherwise
\* one with bit 5 set is a slug count of value b0 & 0x1F, otherwise it is a
\* status byte; the second byte of a two-byte event starts no event of its
\* own, and the byte after it is a first byte again.
C15_Tokenizer ==
    (PollDone /\ rsp.res.kind = "Data") =>
        /\ Cardinality({i \in 0..15 : poll_results[i] # NoEvent}) = Len(ReplyTokens)
        /\ \A i \in 1..Len(ReplyTokens) :
              LET e == poll_results[i - 1]
                  b0 == rsp.bytes[ReplyTokens[i].pos]
              IN CASE b0 >= 128 ->
                        /\ e.kind = "ManualDispense"
                        /\ e.coins_remaining = rsp.bytes[ReplyTokens[i].pos + 1]
                   [] b0 \in 64..127 ->
                        /\ e.kind = "Coin"
                        /\ e.coins_remaining = rsp.bytes[ReplyTokens[i].pos + 1]
                   [] b0 \in 32..63 -> e.kind = "SlugCount" /\ e.value = b0 - 32
                   [] OTHER -> e.kind = "Status" /\ e.value = b0

\* poll has returned a manual dispense whose second byte has the pattern of a
\* slug count, and the status and the slug counts that followed it
C15_Witness ==
    /\ PollDone
    /\ rsp = Rd(Data(5), <<140, 35, 7, 35, 40>>)
    /\ poll_results[0].kind = "ManualDispense"
    /\ poll_results[0].coins_remaining = 35
    /\ poll_results[1] = Status(7)
    /\ poll_results[2] = SlugCount(3)
    /\ poll_results[3] = SlugCount(8)
    /\ poll_results[4] = NoEvent

\* routing named by bits 4-5 of a first byte
RoutingOfBits(b0) ==
    CASE (b0 \div 16) % 4 = 0 -> "CashBox"
      [] (b0 \div 16) % 4 = 1 -> "Tube"
      [] (b0 \div 16) % 4 = 3 -> "Reject"
      [] (b0 \div 16) % 4 = 2 -> "Unknown"

\* value of slot n of the coin type table, 0 when the slot is absent
TableValue(n) ==
    IF coin.coin_types[n].present THEN coin.coin_types[n].unscaled_value ELSE 0

\* C16: a coin deposit (b0, b1) is returned with coin_type = b0 & 0x0F, the
\* routing of bits 4-5 of b0 (00 CashBox, 01 Tube, 11 Reject, 10 Unknown) and
\* coins_remaining = b1; a manual dispense with coin_type = b0 & 0x0F,
\* number = (b0 >> 4) & 0x07 and coins_remaining = b1; both with the
\* unscaled_value of slot coin_type of the table, or 0 when the slot is absent.
C16_TwoByteEventFields ==
    PollDone =>
        \A i \in 1..Len(ReplyTokens) :
            LET e == poll_results[i - 1]
                tk == ReplyTokens[i]
            IN /\ tk.kind = "Coin" =>
                    e = [kind |-> "Coin", value |-> 0, coin_type |-> tk.b0 % 16,
                         unscaled_value |-> TableValue(tk.b0 % 16),
                         routing |-> RoutingOfBits(tk.b0), number |-> 0,
                         coins_remaining |-> tk.b1]
               /\ tk.kind = "ManualDispense" =>
                    e = [kind |-> "ManualDispense", value |-> 0, coin_type |-> tk.b0 % 16,
                         unscaled_value |-> TableValue(tk.b0 % 16),
                         routing |-> "None", number |-> (tk.b0 \div 16) % 8,
                         coins_remaining |-> tk.b1]

\* poll has returned a coin deposit of an existing coin type with routing
\* bits 10
C16_Witness ==
    /\ PollDone
    /\ rsp = Rd(Data(4), <<98, 255, 82, 78>>)
    /\ coin.coin_types[2].present
    /\ poll_results[0].kind = "Coin"
    /\ poll_results[0].routing = "Unknown"
    /\ poll_results[0].unscaled_value = coin.coin_types[2].unscaled_value
    /\ poll_results[0].unscaled_value > 0

\* the reply from byte k on ends with the first byte of a two-byte event
RECURSIVE EndsInOrphan(_, _)
EndsInOrphan(b, k) ==
    IF k > Len(b) THEN FALSE
    ELSE IF b[k] >= 64 THEN (k = Len(b) \/ EndsInOrphan(b, k + 2))
    ELSE EndsInOrphan(b, k + 1)

\* C17: when the reply ends right after the first byte of a two-byte event,
\* there is no event for that byte and the array is the one poll returns for
\* the reply without it; the loop of poll over the payload 0x23 0x8C gives
\* SlugCount(3) and nothing else.
C17_OrphanFirstByteDropped ==
    (PollDone /\ rsp.res.kind = "Data" /\ EndsInOrphan(rsp.bytes, 1)) =>
        LET before == SubSeq(rsp.bytes, 1, Len(rsp.bytes) - 1)
        IN /\ Cardinality({i \in 0..15 : poll_results[i] # NoEvent}) = Len(Tokens(before, 1))
           /\ poll_results = PollResults(coin.coin_types, Rd(Data(Len(before)), before))
           /\ PollResults(coin.coin_types, Rd(Data(2), <<35, 140>>))
                 = [i \in 0..15 |-> IF i = 0 THEN SlugCount(3) ELSE NoEvent]

\* poll has returned SlugCount(3) alone for the payload 0x23 0xDE, whose
\* second byte is the first byte of a manual dispense
C17_Witness ==
    /\ PollDone
    /\ rsp = Rd(Data(2), <<35, 222>>)
    /\ poll_results[0] = SlugCount(3)
    /\ poll_results[1] = NoEvent

\* the reply from byte k on without its unknown status bytes: first bytes
\* 000xxxxx that are no ChangerStatus code
RECURSIVE WithoutUnknownStatus(_, _)
WithoutUnknownStatus(b, k) ==
    IF k > Len(b) THEN <<>>
    ELSE IF b[k] >= 64
    THEN IF k = Len(b) THEN <<b[k]>>
         ELSE <<b[k], b[k + 1]>> \o WithoutUnknownStatus(b, k + 2)
    ELSE IF b[k] >= 32 \/ KnownStatus(b[k])
    THEN <<b[k]>> \o WithoutUnknownStatus(b, k + 1)
    ELSE WithoutUnknownStatus(b, k + 1)

\* C18: a status byte of a POLL reply gives a Status event iff it is one of
\* the codes 0x01-0x09, 0x10-0x13; any other status byte gives no event and
\* the bytes after it are decoded as if it had not been there.
C18_UnknownStatusSkipped ==
    (PollDone /\ rsp.res.kind = "Data") =>
        LET known == WithoutUnknownStatus(rsp.bytes, 1)
        IN /\ \A i \in 0..15 :
                 poll_results[i].kind = "Status" => KnownStatus(poll_results[i].value)
           /\ Cardinality({i \in 0..15 : poll_results[i].kind = "Status"})
                 = Cardinality({k \in 1..Len(ReplyTokens) : ReplyTokens[k].kind = "Status"})
           /\ poll_results = PollResults(coin.coin_types, Rd(Data(Len(known)), known))

\* poll has skipped the unknown status byte 0x0C and returned the slug count,
\* the status and the coin deposit that followed it
C18_Witness ==
    /\ PollDone
    /\ rsp = Rd(Data(5), <<12, 35, 7, 82, 121>>)
    /\ poll_results[0] = SlugCount(3)
    /\ poll_results[1] = Status(7)
    /\ poll_results[2].kind = "Coin"
    /\ poll_results[3] = NoEvent

----------------------------------------------------------------------------
(* Properties of payout_level2 *)

\* payout takes the level 3 way (lines 360-364)
UseL3Payout == coin.l3_features.present /\ coin.l3_features.alt_payout_cmd_supported

\* the parameter byte of the DISPENSE command that is waiting for its reply
DispenseParam == bus_log[Len(bus_log)].data[2]

\* what the DISPENSE command waiting for its reply says it pays out: the coin
\* count of its high nibble times the value of the slot of its low nibble
DispenseWorth ==
    (DispenseParam \div 16) * coin.coin_types[DispenseParam % 16].unscaled_value

\* C19: the value payout_level2 returns is the sum, over the DISPENSE commands
\* that were ACKed, of the coin count in the high nibble of the parameter byte
\* times the unscaled_value of the slot in its low nibble: amount_paid starts
\* at 0, grows by exactly that product when a DISPENSE is ACKed, stays as it
\* is when it is not, and is the value returned.
C19_PayoutConservation ==
    [][/\ (cpc = "idle" /\ cop' \in {"payout", "payout_level2"}) => amount_paid' = 0
       /\ (cpc = "dispense_recv" /\ cret'.kind # "panic") =>
             amount_paid' = amount_paid
                 + (IF rsp'.sent = "ACK" THEN DispenseWorth ELSE 0)
       /\ (cop = "payout" /\ ~UseL3Payout /\ cpc = "tube_recv" /\ cret'.kind # "panic") =>
             cret' = RetU16(amount_paid)
       /\ (cop' = "payout_level2" /\ cpc' = "idle" /\ cret'.kind # "panic") =>
             cret' = RetU16(amount_paid')]_vars

\* the smallest of three numbers
Min3(a, b, c) == Min(Min(a, b), c)

\* C20: every DISPENSE command of payout_level2 is [0x0D, (n << 4) | slot]
\* with 1 <= n <= 15, for a slot that exists, holds coins and is worth no
\* more than what is still owed; n never needs more than the 4-bit field,
\* and for the first command of a payout n = min(owed / unscaled_value,
\* num_coins, 15).
C20_DispenseCountFitsNibble ==
    cpc = "dispense_recv" =>
        LET cmd == bus_log[Len(bus_log)].data
            n == DispenseParam \div 16
            ct == coin.coin_types[DispenseParam % 16]
            owed == credit - amount_paid
        IN /\ Len(cmd) = 2
           /\ cmd[1] = DISPENSE_CMD
           /\ DispenseParam % 16 = slot
           /\ n \in 1..15
           /\ ct.present
           /\ ct.num_coins > 0
           /\ ct.unscaled_value > 0
           /\ ct.unscaled_value <= owed
           /\ n * ct.unscaled_value <= owed
           /\ n <= ct.num_coins
           /\ Len(bus_log) = 1 => n = Min3(owed \div ct.unscaled_value, ct.num_coins, 15)

\* C26: payout_level2 issues its DISPENSE commands in non-increasing slot
\* order, slot 15 first; each time a DISPENSE is ACKed what is still owed
\* (credit - amount_paid) goes down by num_to_pay * unscaled_value of the
\* slot, and otherwise it stays; once nothing is owed no further DISPENSE is
\* sent.
C26_DispenseOrder ==
    [][(cpc = "dispense_recv" /\ cret'.kind # "panic") =>
          LET value == coin.coin_types[DispenseParam % 16].unscaled_value
              acked == rsp'.sent = "ACK"
              again == cpc' = "dispense_recv"
              next_slot == bus_log'[Len(bus_log')].data[2] % 16
          IN /\ again => next_slot <= DispenseParam % 16
             /\ credit' - amount_paid' =
                   (credit - amount_paid) - (IF acked THEN num_to_pay * value ELSE 0)
             /\ credit' - amount_paid' = 0 => ~again]_vars

\* payout_level3 is running or has returned: payout on the level 3 way, or
\* the application's own call
L3Way == cop = "payout_level3" \/ (cop = "payout" /\ UseL3Payout)

\* the frames of the alternative payout: PAYOUT, PAYOUT_VALUE_POLL and
\* PAYOUT_STATUS all start with the level 3 prefix 0x0F
IsL3Frame(e) == e.ev = "send" /\ e.data[1] = 15

\* C21: a level 3 payout of a credit whose scaled value credit /
\* scaling_factor is above 255 pays 0 and puts no PAYOUT, PAYOUT_VALUE_POLL
\* or PAYOUT_STATUS frame on the bus; with a scaled value of at most 255 the
\* first frame of the payout is [0x0F, 0x02, credit / scaling_factor]
C21_L3PayoutLimit ==
    (L3Way /\ coin.scaling_factor # 0) =>
        IF credit \div coin.scaling_factor > 255
        THEN /\ \A k \in 1..Len(bus_log) : ~IsL3Frame(bus_log[k])
             /\ amount_paid = 0
             /\ (cpc = "idle" /\ cret.kind # "panic") => cret = RetU16(0)
        ELSE /\ Len(bus_log) >= 1
             /\ bus_log[1] = SendEv(<<15, 2, credit \div coin.scaling_factor>>)

\* a payout of 500 at scaling factor 5 has sent [0x0F, 0x02, 0x64]
C21_Witness ==
    /\ L3Way
    /\ credit = 500 /\ coin.scaling_factor = 5
    /\ bus_log[1] = SendEv(<<15, 2, 100>>)

\* a payout of 300 at scaling factor 1 has returned 0
C21_WitnessOverLimit ==
    /\ L3Way
    /\ credit = 300 /\ coin.scaling_factor = 1
    /\ cpc = "idle" /\ cret = RetU16(0)

\* bit k (0 the lowest) of byte b is set
BitSet(b, k) == (b \div Pow2(k)) % 2 = 1

\* C22: in init of a level 3 acceptor whose IDENT reply has 33 bytes,
\* FEATURE_ENABLE goes out as [0x0F, 0x01, 0, 0, 0, flags] with bit 0x01 of
\* flags set when the option byte (byte 32 of the reply) reports the
\* alternative payout and bit 0x02 set when it reports the extended
\* diagnostic; the four feature flags stored by init are bits 0x01, 0x02,
\* 0x04 and 0x08 of the option byte
C22_FeatureEnableFlags ==
    /\ (cop = "init" /\ cpc = "feature_recv") =>
          LET opt == rsp.bytes[33]
              m == bus_log[Len(bus_log)].data
          IN /\ bus_log[Len(bus_log)].ev = "send"
             /\ Len(m) = 6
             /\ SubSeq(m, 1, 5) = <<15, 1, 0, 0, 0>>
             /\ BitSet(opt, 0) => BitSet(m[6], 0)
             /\ BitSet(opt, 1) => BitSet(m[6], 1)
    /\ (cop = "init" /\ cpc = "idle" /\ coin.present /\ coin.l3_features.present) =>
          LET opt == cbuf[33]
              f == coin.l3_features
          IN /\ f.alt_payout_cmd_supported = BitSet(opt, 0)
             /\ f.ext_diag_cmd_supported = BitSet(opt, 1)
             /\ f.controlled_fill_payout_cmd_supported = BitSet(opt, 2)
             /\ f.ftl_cmd_supported = BitSet(opt, 3)

----------------------------------------------------------------------------
(* Properties of the cashless device *)

\* the lengths of the poll replies that do not depend on the feature level,
\* as a table from the first byte
FixedLengths ==
    [c \in {0, 1, 2, 4, 5, 6, 7, 8, 10, 13, 14, 15, 17, 18} |->
        CASE c \in {0, 4, 6, 7, 8, 13, 14, 17} -> 1
          [] c \in {10, 18} -> 2
          [] c \in {5, 15} -> 3
          [] c = 1 -> 8
          [] c = 2 -> 34]

\* C23: for every feature level poll_response_length returns 1 for
\* JUST_RESET (0x00), 8 for READER_CONFIG_DATA (0x01), 34 for DISPLAY_REQUEST
\* (0x02), 1 for SESSION_CANCEL_REQUEST (0x04), 3 for VEND_APPROVED (0x05),
\* 1 for VEND_DENIED (0x06), END_SESSION (0x07) and CANCELLED (0x08), 2 for
\* MALFUNCTION (0x0A), 1 for REVALUE_APPROVED (0x0D) and REVALUE_DENIED
\* (0x0E), 3 for REVALUE_LIMIT_AMOUNT (0x0F), 1 for TIME_DATE_REQUEST (0x11)
\* and 2 for DATA_ENTRY_REQUEST (0x12)
C23_FixedPollLengths ==
    poll_cmd \in DOMAIN FixedLengths => poll_len = Length(FixedLengths[poll_cmd])

\* C24: poll_response_length returns 3 for BEGIN_SESSION (0x03) on level 1
\* and 10 on levels 2 and 3, 30 for PERIPHERAL_ID (0x09) on levels 1 and 2
\* and 34 on level 3, 1 for OUT_OF_SEQUENCE (0x0B) on level 1 and 2 on
\* levels 2 and 3
C24_LevelDependentLengths ==
    LET level == cashless.feature_level
    IN /\ poll_cmd = 3 => poll_len = Length(IF level = 1 THEN 3 ELSE 10)
       /\ poll_cmd = 9 => poll_len = Length(IF level \in {1, 2} THEN 30 ELSE 34)
       /\ poll_cmd = 11 => poll_len = Length(IF level = 1 THEN 1 ELSE 2)

\* PERIPHERAL_ID has been looked up on a level 3 reader and gave 34
C24_Witness ==
    /\ cashless = CashlessDevice(3)
    /\ poll_cmd = 9
    /\ poll_len = Length(34)

\* the states of the session state machine
SessionStates == {"Inactive", "Enabled", "SessionIdle", "Vending"}

\* C25: the cashless device keeps a session state, one of Inactive,
\* Enabled, SessionIdle and Vending, and a VEND_APPROVED poll event (0x05)
\* is taken only while the session is in Vending; in every other state it
\* is dropped
C25_VendApprovedOnlyInVending ==
    cashless.present =>
        /\ "session" \in DOMAIN cashless
        /\ cashless.session \in SessionStates
        /\ (poll_cmd = POLL_REPLY_VEND_APPROVED /\ cashless.session # "Vending")
              => poll_len = NoLength

----------------------------------------------------------------------------
(* Properties of payout_level3 *)

\* the frames of the alternative payout
PayoutFrame(scaled) == SendEv(<<15, 2, scaled>>)
ValuePollFrame == SendEv(<<15, 4>>)
PayoutStatusFrame == SendEv(<<15, 3>>)

\* how many entries of the log are the frame f
RECURSIVE CountFrames(_, _)
CountFrames(log, f) ==
    IF log = <<>> THEN 0
    ELSE (IF Head(log) = f THEN 1 ELSE 0) + CountFrames(Tail(log), f)

\* the sum over the slots i below n that exist of unscaled_value[i] * b[i]
RECURSIVE SlotSum(_, _, _)
SlotSum(types, b, n) ==
    IF n = 0 THEN 0
    ELSE SlotSum(types, b, n - 1)
         + (IF types[n - 1].present THEN types[n - 1].unscaled_value * b[n] ELSE 0)

\* a level 3 payout whose scaled credit is at most 255
InL3Payout ==
    /\ L3Way
    /\ coin.scaling_factor # 0
    /\ credit \div coin.scaling_factor <= 255

\* C27: a level 3 payout of a scaled credit of at most 255 sends one PAYOUT,
\* then PAYOUT_VALUE_POLL again after every data frame and no more after the
\* first ACK, then one PAYOUT_STATUS, sent only on that ACK; the value
\* returned is the sum over the existing slots i of unscaled_value[i] times
\* byte i of the PAYOUT_STATUS reply.
C27_L3PayoutSequence ==
    [][(InL3Payout /\ cret'.kind # "panic") =>
         LET last == bus_log'[Len(bus_log')]
             sent == Len(bus_log') > Len(bus_log) /\ last.ev = "send"
         IN /\ cpc # "idle" =>
                  CountFrames(bus_log', PayoutFrame(credit \div coin.scaling_factor)) = 1
            /\ cpc = "l3_payout_recv" => sent /\ last = ValuePollFrame
            /\ (cpc = "l3_value_poll_recv" /\ rsp'.res.kind = "Data") =>
                  sent /\ last = ValuePollFrame
            /\ (cpc = "l3_value_poll_recv" /\ rsp'.sent = "ACK") =>
                  sent /\ last = PayoutStatusFrame
            /\ (sent /\ last = PayoutStatusFrame) =>
                  /\ cpc = "l3_value_poll_recv"
                  /\ rsp'.sent = "ACK"
                  /\ CountFrames(bus_log', PayoutStatusFrame) = 1
            /\ (sent /\ last = ValuePollFrame) =>
                  CountFrames(bus_log', PayoutStatusFrame) = 0
            /\ (cpc = "l3_status_recv" /\ rsp'.res.kind = "Data") =>
                  amount_paid' = SlotSum(coin.coin_types, rsp'.bytes, rsp'.res.n)
            /\ (cpc = "tube_recv" /\ cpc' = "idle") => cret' = RetU16(amount_paid)
            /\ (cop = "payout_level3" /\ cpc = "l3_status_recv") =>
                  cret' = RetU16(amount_paid')]_vars


\* C29: whatever the coin table (scaling factor 0 included), the credit and
\* the replies of the peripheral, payout returns an amount on the level 2
\* and on the level 3 way: it ends with a value and not with a fault (no
\* division by zero), and it does not send a DISPENSE or a
\* PAYOUT_VALUE_POLL that was not acknowledged again and again for ever:
\* no turn of a retry loop leaves the loop as it found it.
C29_PayoutReturns ==
    [][/\ (cop' \in {"payout", "payout_level2", "payout_level3"} /\ cpc' = "idle"
             /\ rsp'.res.kind # "Panic") => cret'.kind = "u16"
       /\ (cpc = "dispense_recv" /\ cpc' = "dispense_recv") =>
             <<slot', num_to_pay', amount_paid'>> # <<slot, num_to_pay, amount_paid>>
       /\ (cpc = "l3_value_poll_recv" /\ rsp'.res.kind # "Data") =>
             cpc' # "l3_value_poll_recv"]_vars


\* C30: in payout_level2 the amount paid never passes the credit asked for,
\* so that credit - amount_paid never goes below 0; amount_paid never wraps
\* round 16 bits (it never gets smaller); and the amount returned is at most
\* the credit.
C30_PaidWithinCredit ==
    [][(cop' = "payout_level2" \/ (cop' = "payout" /\ ~UseL3Payout)) =>
          /\ amount_paid' <= credit'
          /\ cpc = "dispense_recv" => amount_paid' >= amount_paid
          /\ (cpc' = "idle" /\ cret'.kind = "u16") => cret'.n <= credit']_vars

\* a payout_level2 of 300 has had its first DISPENSE answered with ACK by
\* the peripheral and has sent the next one with nothing paid so far
C30_Witness ==
    /\ cop = "payout_level2" \/ (cop = "payout" /\ ~UseL3Payout)
    /\ cpc = "dispense_recv"
    /\ rsp.sent = "ACK"
    /\ credit = 300
    /\ amount_paid = 0
    /\ Len(bus_log) = 3

----------------------------------------------------------------------------
(* Properties of l3_diagnostic_status *)

\* the categories without a subtype and the status each stands for
PlainCategories ==
    [c \in {1, 2, 3, 4, 6, 20} |->
        CASE c = 1 -> "PoweringUp" [] c = 2 -> "PoweringDown" [] c = 3 -> "Ok"
          [] c = 4 -> "KeypadShifted" [] c = 6 -> "InhibitedByVmc"
          [] c = 20 -> "DispenserError"]

\* the categories with a subtype: the status, and the subcodes that name a
\* subtype (NonSpecific is 0x00 in each)
SubtypeCategories ==
    [c \in {16, 17, 18, 19, 21} |->
        CASE c = 16 -> [status |-> "GeneralError", subcodes |-> GeneralErrorSubtypes]
          [] c = 17 -> [status |-> "DiscriminatorError", subcodes |-> DiscriminatorErrorSubtypes]
          [] c = 18 -> [status |-> "AcceptGateError", subcodes |-> AcceptGateErrorSubtypes]
          [] c = 19 -> [status |-> "SeparatorError", subcodes |-> SeparatorModuleErrorSubtypes]
          [] c = 21 -> [status |-> "CoinCassetteError", subcodes |-> CoinCassetteErrorSubtypes]]

\* l3_diagnostic_status has returned
DiagDone == cop = "l3_diagnostic_status" /\ cpc = "idle" /\ cret = RetArray

\* C28: l3_diagnostic_status reads the reply as consecutive (category,
\* subcode) pairs and returns one status per pair in wire order, at most 8:
\* categories 0x01, 0x02, 0x03, 0x04, 0x06, 0x14 give PoweringUp,
\* PoweringDown, Ok, KeypadShifted, InhibitedByVmc, DispenserError;
\* categories 0x10, 0x11, 0x12, 0x13, 0x15 give their error with the subtype
\* the subcode names, NonSpecific for a subcode that names none; a trailing
\* byte without a partner and a status-token reply give no status.
C28_DiagPairs ==
    DiagDone =>
        LET pairs == IF rsp.res.kind = "Data" THEN rsp.res.n \div 2 ELSE 0
        IN /\ pairs <= 8
           /\ \A k \in 0..7 :
                 IF k < pairs
                 THEN LET category == rsp.bytes[2 * k + 1]
                          subcode == rsp.bytes[2 * k + 2]
                      IN /\ category \in DOMAIN PlainCategories =>
                               statuses[k] = L3Status(PlainCategories[category], 0)
                         /\ category \in DOMAIN SubtypeCategories =>
                               /\ statuses[k].kind = SubtypeCategories[category].status
                               /\ statuses[k].sub =
                                    (IF subcode \in SubtypeCategories[category].subcodes
                                     THEN subcode ELSE 0)
                 ELSE statuses[k] = NoL3Status

\* a reply of four pairs has been decoded: three subcodes that name no
\* subtype, then a category that is none of the eleven
C28_Witness ==
    /\ DiagDone
    /\ rsp = Rd(Data(8), <<17, 1, 18, 1, 19, 1, 5, 195>>)
    /\ statuses[0] = L3Status("DiscriminatorError", 0)
    /\ statuses[1] = L3Status("AcceptGateError", 0)
    /\ statuses[2] = L3Status("SeparatorError", 0)
    /\ statuses[3] = NoL3Status

----------------------------------------------------------------------------
(* Properties of the scratch buffer of receive_response *)

\* physical bytes of the reply that the reads have handed out so far
Consumed == Len(Wire(reply)) - Len(rx)

\* C31: in receive_response, whatever the byte counts of the UART reads
\* (replies longer than one read and reads of more than two bytes included),
\* offset stays within 0..72, every slice and index of the 72-byte scratch
\* buffer is in range (the call does not panic), and the alternation of mode
\* byte and data byte stays aligned with the wire from one read to the next:
\* a read that the loop starts on a mode byte position starts on a mode byte
\* of the wire.
C31_ScratchInRange ==
    op = "receive_response" =>
        /\ offset \in 0..SCRATCH_LEN
        /\ result # Panic
        /\ (lpc = "recv" /\ rx # <<>>) => Consumed % 2 = 0

----------------------------------------------------------------------------
(* Properties of the coin-type table *)

\* init has returned a coin acceptor
InitReturned == coin.present /\ ~(cop = "init" /\ cpc # "idle")

\* what SETUP says of a slot: whether it exists, its value, its routing
SetupPart(ct) == <<ct.present, ct.unscaled_value, ct.routeable_to_tube>>

\* C32: once init has returned a coin acceptor, no operation (the tube
\* status refresh, enable_coins, poll, payout on either way, the level 3
\* diagnostics) changes which of the 16 coin-type slots are present, nor the
\* unscaled_value or the routeable flag of a slot; num_coins and tube_full
\* change only for slots that are present and only when the reply to
\* TUBE_STATUS is taken.
C32_CoinTableStable ==
    [][(InitReturned /\ coin'.coin_types # coin.coin_types) =>
          /\ cpc = "tube_recv"
          /\ \A i \in 0..(NumCoinTypes - 1) :
                /\ SetupPart(coin'.coin_types[i]) = SetupPart(coin.coin_types[i])
                /\ coin'.coin_types[i] # coin.coin_types[i] =>
                      coin.coin_types[i].present]_vars

\* payout has refreshed the tube counts of a table whose slots 0 and 1 exist
\* and whose slot 2 does not: the counts 3 and 2 are taken, the 1 is not
C32_Witness ==
    /\ cop = "payout" /\ cpc = "idle"
    /\ rsp = Rd(Data(18), OddTubeData)
    /\ coin.coin_types[0].present /\ coin.coin_types[0].num_coins = 3
    /\ coin.coin_types[1].present /\ coin.coin_types[1].num_coins = 2
    /\ ~coin.coin_types[2].present /\ coin.coin_types[2].num_coins = 0

====
